---- MODULE Spec2Model ----
(***************************************************************************)
(* Model of the benchmark execution engine of qudag/benchmarking:          *)
(*   benchmarks/core/runner.py      BenchmarkRunner (run, run_suite)       *)
(*   optimized_benchmark_runner.py  LRUCache                               *)
(*                                                                         *)
(* A workload is an arbitrary callable: every invocation either returns,   *)
(* raises, or (under a timeout) is still running when the wait expires.    *)
(* A measured duration (timer() - start_time) is abstracted to the ordinal *)
(* of the workload call it measured.                                       *)
(***************************************************************************)
EXTENDS Integers, Sequences, FiniteSets, TLC

\* ---- bounds of the model ------------------------------------------------
MaxIterations == 3      \* config["iterations"] ranges over 0..MaxIterations
MaxWarmup == 2          \* config["warmup"] ranges over 0..MaxWarmup
MaxRetries == 2         \* config["max_retries"] ranges over 0..MaxRetries

Names == {"a", "b", "c", "d", "e"}  \* benchmark names
NoName == "benchmark"               \* runner.py:38, the default runner name
Payloads == {"boom"}                \* what a workload's own exception carries

VARIABLES
    config,      \* the configuration the runner was constructed with
    benchmarks,  \* the (name, func) pairs handed to run_suite / the workload of run
    name,        \* name[r]: self.name of runner object r (0 is the caller's runner)
    run,         \* run[k]: the activation of BenchmarkRunner.run on workload k
    suite,       \* the activation of run_suite
    lru,         \* the LRUCache object
    now,         \* datetime.now(), in seconds
    thr,         \* thr[t]: the get or put call thread t is executing
    ret,         \* history: what the latest completed get returned
    hist,        \* history of the calls on the cache: the latest get, the puts
    disk,        \* the directory benchmarking/.cache and the file benchmark_cache.pkl.gz
    opt,         \* the OptimizedBenchmarkRunner object and its construction
    smp,         \* the activation of run_benchmark_async
    batch,       \* the batch queue of one workload type and its pending requests
    col,         \* the MetricCollector object and its sampling threads
    lat,         \* the operation timings of a MetricCollector and of a LatencyMetric
    pool         \* the MemoryPool object, its buffers and the threads using it

vars == <<config, benchmarks, name, run, suite, lru, now, thr, ret,
          hist, disk, opt, smp, batch, col, lat, pool>>

\* the state of BenchmarkRunner, and the state outside it
runnerVars == <<config, benchmarks, name, run, suite>>
cacheVars == <<lru, now, thr, ret>>
restVars == <<disk, opt, smp, batch, col>>
optVars == <<hist, disk, opt, smp, batch, col>>
auxVars == <<lat, pool>>

NB == Len(benchmarks)

\* ---- exceptions -----------------------------------------------------------
NoError == [type |-> "none", message |-> <<>>]

\* runner.py:149  TimeoutError(f"Benchmark exceeded timeout of {timeout}s")
TimeoutErr == [type |-> "TimeoutError",
               message |-> <<"Benchmark exceeded timeout of", "timeout", "s">>]

\* an exception raised by the workload itself; the engine never wraps it
WorkloadErr(p) == [type |-> "WorkloadError", message |-> <<p>>]

\* ---- BenchmarkRunner.__init__ ---------------------------------------------
Configs(maxIt, maxWarm, maxRetr, pars, workerSet) ==
    [iterations : 0..maxIt, warmup : 0..maxWarm, timeout : BOOLEAN,
     retry_on_error : BOOLEAN, max_retries : 0..maxRetr,
     parallel : pars, workers : workerSet]

\* ---- what a workload returns, what a collector reports --------------------
\* Python values that are tested with isinstance carry their kind
ReturnNone == [kind |-> "none", value |-> [x \in {} |-> 0]]

\* the value the workload with the given name returns: nothing, a number, or
\* a mapping of metrics (one of them under a key the collector reports too)
ReturnValue(n) ==
    CASE n = "a" -> ReturnNone
      [] n = "b" -> [kind |-> "int", value |-> [x \in {} |-> 0]]
      [] n = "c" -> [kind |-> "dict", value |-> [custom_metric |-> 42]]
      [] n = "d" -> [kind |-> "dict", value |-> [memory |-> 1]]
      [] OTHER -> [kind |-> "dict", value |-> [custom_metric |-> 42, memory |-> 1]]

\* metric_collector=None, the default of run and of run_suite
NoCollector == [attached |-> FALSE, collect_all |-> [x \in {} |-> 0]]

\* the metric_collector argument: None, or a MetricCollector (always truthy)
\* whose collect_all() reports nothing or one metric (collector.py:81-102)
Collectors ==
    {NoCollector} \cup
    {[attached |-> TRUE, collect_all |-> m] :
        m \in {[x \in {} |-> 0], [memory |-> 7]}}

\* dict.update: the entries of b are written over those of a
Update(a, b) ==
    [x \in DOMAIN a \cup DOMAIN b |-> IF x \in DOMAIN b THEN b[x] ELSE a[x]]

\* runner.py:100-109, the metrics run collects.  The workload's return value
\* is looked at only inside "if metric_collector:".
Metrics(r) ==
    IF r.metric_collector.attached
    THEN Update(IF r.return_value.kind = "dict"
                THEN r.return_value.value ELSE [x \in {} |-> 0],
                r.metric_collector.collect_all)
    ELSE [x \in {} |-> 0]

\* state of run before it is called (runner.py:69-72 initial locals included)
NewRun ==
    [pc |-> "idle",
     warm |-> 0,                  \* warmup iterations done
     it |-> 0,                    \* position of the range(iterations) iterator
     i |-> -1,                    \* the loop variable i
     execution_times |-> <<>>,
     return_value |-> ReturnNone,
     completed_iterations |-> 0,
     errors |-> 0,
     func |-> "a",                \* the benchmark_func argument, by its name
     metric_collector |-> NoCollector,
     thread |-> "none",           \* the thread of _run_with_timeout
     exc |-> NoError,             \* exception[0] of _run_with_timeout
     abandoned |-> 0,             \* timed-out threads that are still running
     error |-> NoError,           \* the exception run raised
     result |-> <<>>,             \* <<result>> once run has returned
     calls |-> 0,                 \* history: invocations of the workload started
     fails |-> 0]                 \* history: measured invocations that raised or timed out

\* the runner object that executes workload k: the caller's own runner, or in
\* parallel mode a fresh BenchmarkRunner per task (runner.py:201)
Runner(k) == IF config.parallel THEN k ELSE 0

\* ---- BenchmarkRunner.run --------------------------------------------------
\* the call of run(benchmark_func, metric_collector=mc) on workload k
Enter(k, mc) ==
    /\ run[k].pc = "idle"
    /\ run' = [run EXCEPT ![k].pc = "warmup", ![k].func = benchmarks[k],
                          ![k].metric_collector = mc]

\* runner.py:66-67, a warmup invocation starts (never under the timeout)
WarmupCall(k) ==
    /\ run[k].pc = "warmup"
    /\ run[k].warm < config.warmup
    /\ run' = [run EXCEPT ![k].pc = "warmup_call", ![k].calls = @ + 1]
    /\ UNCHANGED <<config, benchmarks, name, suite, cacheVars, optVars, auxVars>>

\* variant of WarmupReturn: an exception of a warmup invocation is counted as
\* an error and the invocation is made again
WarmupReturnHandledMutant(k) ==
    /\ run[k].pc = "warmup_call"
    /\ \/ run' = [run EXCEPT ![k].pc = "warmup", ![k].warm = @ + 1]
       \/ \E p \in Payloads :
            run' = [run EXCEPT ![k].pc = IF run[k].errors < config.max_retries
                                        THEN "warmup" ELSE "raised",
                              ![k].error = IF run[k].errors < config.max_retries
                                           THEN @ ELSE WorkloadErr(p),
                              ![k].errors = @ + 1]
    /\ UNCHANGED <<config, benchmarks, name, suite, cacheVars, optVars, auxVars>>

\* runner.py:67, the warmup invocation returns, or raises out of run
WarmupReturn(k) ==
    /\ run[k].pc = "warmup_call"
    /\ \/ run' = [run EXCEPT ![k].pc = "warmup", ![k].warm = @ + 1]
       \/ \E p \in Payloads :
            run' = [run EXCEPT ![k].pc = "raised", ![k].error = WorkloadErr(p)]
    /\ UNCHANGED <<config, benchmarks, name, suite, cacheVars, optVars, auxVars>>

\* variant of WarmupDone: the warmup loop stops one invocation short
WarmupDoneShortMutant(k) ==
    /\ run[k].pc = "warmup"
    /\ run[k].warm >= config.warmup - 1
    /\ run' = [run EXCEPT ![k].pc = "iterate"]
    /\ UNCHANGED <<config, benchmarks, name, suite, cacheVars, optVars, auxVars>>

\* runner.py:66,69-72, the warmup loop is exhausted
WarmupDone(k) ==
    /\ run[k].pc = "warmup"
    /\ run[k].warm = config.warmup
    /\ run' = [run EXCEPT ![k].pc = "iterate"]
    /\ UNCHANGED <<config, benchmarks, name, suite, cacheVars, optVars, auxVars>>

\* variant of Success: the time is recorded, the iteration is not counted
SuccessNoCountMutant(r) ==
    [r EXCEPT !.pc = "iterate",
              !.return_value = ReturnValue(r.func),
              !.execution_times = Append(@, r.calls),
              !.thread = "none"]

\* runner.py:79-88, a measured invocation succeeded
Success(r) ==
    [r EXCEPT !.pc = "iterate",
              !.return_value = ReturnValue(r.func),
              !.execution_times = Append(@, r.calls),
              !.completed_iterations = @ + 1,
              !.thread = "none"]

\* variant of Tolerated: the budget is one failure short
ToleratedShortMutant(errs) == config.retry_on_error /\ errs < config.max_retries

\* runner.py:91-92, the test of the except clause, errors already incremented
Tolerated(errs) == config.retry_on_error /\ errs <= config.max_retries

\* variant of Handler: a retry also rewinds the range iterator
HandlerRetryMutant(r, e) ==
    LET errs == r.errors + 1 IN
    IF Tolerated(errs)
    THEN [r EXCEPT !.errors = errs, !.i = @ - 1, !.it = @ - 1, !.pc = "iterate",
                   !.thread = "none", !.exc = NoError, !.fails = @ + 1]
    ELSE [r EXCEPT !.errors = errs, !.pc = "raised", !.error = e,
                   !.thread = "none", !.exc = NoError, !.fails = @ + 1]

\* runner.py:90-98, the except clause.  "i -= 1" rebinds the loop variable
\* only; the range iterator (it) is untouched.
Handler(r, e) ==
    LET errs == r.errors + 1 IN
    IF Tolerated(errs)
    THEN [r EXCEPT !.errors = errs, !.i = @ - 1, !.pc = "iterate",
                   !.thread = "none", !.exc = NoError, !.fails = @ + 1]
    ELSE [r EXCEPT !.errors = errs, !.pc = "raised", !.error = e,
                   !.thread = "none", !.exc = NoError, !.fails = @ + 1]

\* runner.py:75,82-84, next value of range(iterations), untimed invocation starts
IterateCall(k) ==
    /\ run[k].pc = "iterate"
    /\ run[k].it < config.iterations
    /\ ~config.timeout
    /\ run' = [run EXCEPT ![k].pc = "call", ![k].i = run[k].it,
                          ![k].it = @ + 1, ![k].calls = @ + 1]
    /\ UNCHANGED <<config, benchmarks, name, suite, cacheVars, optVars, auxVars>>

\* variant of CallReturn: the workload's exception is wrapped in another one
CallReturnWrapMutant(k) ==
    /\ run[k].pc = "call"
    /\ \/ run' = [run EXCEPT ![k] = Success(run[k])]
       \/ \E p \in Payloads :
            run' = [run EXCEPT ![k] = Handler(run[k],
                      [type |-> "BenchmarkError", message |-> <<p>>])]
    /\ UNCHANGED <<config, benchmarks, name, suite, cacheVars, optVars, auxVars>>

\* runner.py:84-98, the untimed invocation returns or raises
CallReturn(k) ==
    /\ run[k].pc = "call"
    /\ \/ run' = [run EXCEPT ![k] = Success(run[k])]
       \/ \E p \in Payloads :
            run' = [run EXCEPT ![k] = Handler(run[k], WorkloadErr(p))]
    /\ UNCHANGED <<config, benchmarks, name, suite, cacheVars, optVars, auxVars>>

\* runner.py:100-126, the loop is exhausted: assemble and return the result.
\* The "metrics" key is set only for a non-empty mapping, so an empty metrics
\* field stands for a result without the key.
Finish(k) ==
    /\ run[k].pc = "iterate"
    /\ run[k].it = config.iterations
    /\ run' = [run EXCEPT
                 ![k].pc = "done",
                 ![k].result = <<[name |-> name[Runner(k)],
                                  iterations |-> config.iterations,
                                  execution_times |-> run[k].execution_times,
                                  return_value |-> run[k].return_value,
                                  completed_iterations |-> run[k].completed_iterations,
                                  errors |-> run[k].errors,
                                  metrics |-> Metrics(run[k])]>>]
    /\ UNCHANGED <<config, benchmarks, name, suite, cacheVars, optVars, auxVars>>

\* ---- BenchmarkRunner._run_with_timeout ------------------------------------
\* runner.py:75-80,142-145, next value of range(iterations); the workload is
\* started on a daemon thread and the runner waits in thread.join(timeout)
ThreadStart(k) ==
    /\ run[k].pc = "iterate"
    /\ run[k].it < config.iterations
    /\ config.timeout
    /\ run' = [run EXCEPT ![k].pc = "join", ![k].i = run[k].it, ![k].it = @ + 1,
                          ![k].calls = @ + 1, ![k].thread = "running"]
    /\ UNCHANGED <<config, benchmarks, name, suite, cacheVars, optVars, auxVars>>

\* runner.py:134-140, target(): the workload returns or raises on its thread
ThreadFinish(k) ==
    /\ run[k].thread = "running"
    /\ \/ run' = [run EXCEPT ![k].thread = "returned"]
       \/ \E p \in Payloads :
            run' = [run EXCEPT ![k].thread = "raised", ![k].exc = WorkloadErr(p)]
    /\ UNCHANGED <<config, benchmarks, name, suite, cacheVars, optVars, auxVars>>

\* variant of AfterJoin: the timed-out thread is killed, not abandoned
AfterJoinKillMutant(r) ==
    IF r.thread = "running"
    THEN Handler(r, TimeoutErr)
    ELSE IF r.thread = "raised"
         THEN Handler(r, r.exc)
         ELSE Success(r)

\* runner.py:147-154, what the runner does once join has returned
AfterJoin(r) ==
    IF r.thread = "running"
    THEN Handler([r EXCEPT !.abandoned = @ + 1], TimeoutErr)
    ELSE IF r.thread = "raised"
         THEN Handler(r, r.exc)
         ELSE Success(r)

\* variant of JoinFinished: a workload that raised is reported as a timeout
JoinFinishedMaskMutant(k) ==
    /\ run[k].pc = "join"
    /\ run[k].thread # "running"
    /\ run' = [run EXCEPT ![k] = IF run[k].thread = "raised"
                                 THEN Handler(run[k], TimeoutErr)
                                 ELSE AfterJoin(run[k])]
    /\ UNCHANGED <<config, benchmarks, name, suite, cacheVars, optVars, auxVars>>

\* runner.py:145-154, join returns because the thread has ended
JoinFinished(k) ==
    /\ run[k].pc = "join"
    /\ run[k].thread # "running"
    /\ run' = [run EXCEPT ![k] = AfterJoin(run[k])]
    /\ UNCHANGED <<config, benchmarks, name, suite, cacheVars, optVars, auxVars>>

\* runner.py:145, join returns because timeout seconds have passed
JoinTimeout(k) ==
    /\ run[k].pc = "join"
    /\ run[k].thread = "running"
    /\ run' = [run EXCEPT ![k].pc = "is_alive"]
    /\ UNCHANGED <<config, benchmarks, name, suite, cacheVars, optVars, auxVars>>

\* variant of IsAlive: a timed-out invocation is left running and the loop
\* goes on with the next iteration, whatever the retry policy
IsAliveContinueMutant(k) ==
    /\ run[k].pc = "is_alive"
    /\ run' = [run EXCEPT ![k].abandoned = @ + 1, ![k].thread = "none",
                          ![k].pc = "iterate"]
    /\ UNCHANGED <<config, benchmarks, name, suite, cacheVars, optVars, auxVars>>

\* runner.py:147-154, thread.is_alive() after the wait expired
IsAlive(k) ==
    /\ run[k].pc = "is_alive"
    /\ run' = [run EXCEPT ![k] = AfterJoin(run[k])]
    /\ UNCHANGED <<config, benchmarks, name, suite, cacheVars, optVars, auxVars>>

\* an abandoned daemon thread ends by itself, whenever its workload ends
AbandonedFinish(k) ==
    /\ run[k].abandoned > 0
    /\ run' = [run EXCEPT ![k].abandoned = @ - 1]
    /\ UNCHANGED <<config, benchmarks, name, suite, cacheVars, optVars, auxVars>>

\* the steps of one activation of run
RunStep(k) ==
    \/ WarmupCall(k)
    \/ WarmupReturn(k)
    \/ WarmupDone(k)
    \/ IterateCall(k)
    \/ CallReturn(k)
    \/ ThreadStart(k)
    \/ ThreadFinish(k)
    \/ JoinFinished(k)
    \/ JoinTimeout(k)
    \/ IsAlive(k)
    \/ AbandonedFinish(k)
    \/ Finish(k)

\* invocations of workload k that are executing right now
Active(k) ==
    (IF run[k].pc \in {"warmup_call", "call"} THEN 1 ELSE 0)
    + (IF run[k].thread = "running" THEN 1 ELSE 0)
    + run[k].abandoned

\* no run_suite call is active (runner.py:176,194,198 initial locals included)
NoSuite == [pc |-> "none",
            idx |-> 0,                 \* pairs of benchmarks consumed so far
            original_name |-> NoName,  \* runner.py:180
            collected |-> {},          \* futures as_completed has yielded
            results |-> <<>>,
            error |-> NoError,         \* the exception run_suite raised
            failed |-> 0,              \* history: the workload whose error was raised
            order |-> <<>>]            \* history: the order as_completed yielded in

\* ---- LRUCache (optimized_benchmark_runner.py) -----------------------------
MaxSize == 2            \* max_size ranges over 1..MaxSize
MaxTime == 2            \* the clock runs from 0 to MaxTime, ttl_seconds over 1..MaxTime
MaxLookups == 2         \* at most MaxLookups get calls are counted
NumThreads == 2         \* threads calling get and put

Keys == {"k1", "k2", "k3"}
Values == {"v1", "v2"}
Threads == 1..NumThreads
None == "None"

\* optimized_benchmark_runner.py:64-71, LRUCache.__init__
NewCache(max_size, ttl_seconds) ==
    [cache |-> <<>>,            \* key -> (value, timestamp)
     order |-> <<>>,            \* deque of keys, least recently used first
     max_size |-> max_size,
     ttl_seconds |-> ttl_seconds,
     lock |-> 0,                \* the thread holding self.lock, 0 if free
     hits |-> 0,
     misses |-> 0]

IdleThread == [pc |-> "idle", key |-> None, value |-> None,
               oldest |-> None]      \* the local variable oldest of put

\* deque.remove(key): removes the first occurrence (the key is always present
\* where the cache calls it)
Remove(s, key) ==
    IF \A j \in 1..Len(s) : s[j] # key THEN s
    ELSE LET i == CHOOSE j \in 1..Len(s) : s[j] = key /\ \A h \in 1..(j - 1) : s[h] # key
         IN  SubSeq(s, 1, i - 1) \o SubSeq(s, i + 1, Len(s))

\* del d[key]
Del(d, key) == [x \in DOMAIN d \ {key} |-> d[x]]

\* d[key] = entry
Store(d, key, entry) == [x \in DOMAIN d \cup {key} |-> IF x = key THEN entry ELSE d[x]]

\* variant of Acquire: the body is entered without taking the lock
AcquireNoLockMutant(t, op, key, value) ==
    /\ thr[t].pc = "idle"
    /\ thr' = [thr EXCEPT ![t] = [pc |-> op, key |-> key, value |-> value, oldest |-> None]]
    /\ UNCHANGED lru

\* optimized_benchmark_runner.py:74,92, "with self.lock": a thread enters get
\* or put once the lock is free
Acquire(t, op, key, value) ==
    /\ thr[t].pc = "idle"
    /\ lru.lock = 0
    /\ lru' = [lru EXCEPT !.lock = t]
    /\ thr' = [thr EXCEPT ![t] = [pc |-> op, key |-> key, value |-> value, oldest |-> None]]

\* a thread calls cache.get(key)
CallGet(t) ==
    /\ lru.hits + lru.misses < MaxLookups
    /\ \E key \in Keys : Acquire(t, "get", key, None)
    /\ UNCHANGED <<runnerVars, restVars, now, ret, auxVars>>

\* a thread calls cache.put(key, value)
CallPut(t) ==
    /\ \E key \in Keys, value \in Values : Acquire(t, "put", key, value)
    /\ UNCHANGED <<runnerVars, restVars, now, ret, auxVars>>

\* variant of GetBody: a hit takes the entry out of the cache
GetBodyPopMutant(c, key) ==
    IF key \in DOMAIN c.cache
    THEN IF now - c.cache[key][2] < c.ttl_seconds
         THEN [c EXCEPT !.hits = @ + 1,
                        !.cache = Del(@, key),
                        !.order = Remove(@, key)]
         ELSE [c EXCEPT !.cache = Del(@, key),
                        !.order = Remove(@, key),
                        !.misses = @ + 1]
    ELSE [c EXCEPT !.misses = @ + 1]

\* optimized_benchmark_runner.py:75-89, the body of get
GetBody(c, key) ==
    IF key \in DOMAIN c.cache
    THEN IF now - c.cache[key][2] < c.ttl_seconds
         THEN [c EXCEPT !.hits = @ + 1,
                        !.order = Append(Remove(@, key), key)]
         ELSE [c EXCEPT !.cache = Del(@, key),
                        !.order = Remove(@, key),
                        !.misses = @ + 1]
    ELSE [c EXCEPT !.misses = @ + 1]

\* variant of GetValue: an entry is returned whatever its age
GetValueStaleMutant(c, key) ==
    IF key \in DOMAIN c.cache
    THEN c.cache[key][1]
    ELSE None

\* optimized_benchmark_runner.py:76-82,89, the value get returns
GetValue(c, key) ==
    IF key \in DOMAIN c.cache /\ now - c.cache[key][2] < c.ttl_seconds
    THEN c.cache[key][1]
    ELSE None

\* optimized_benchmark_runner.py:73-89, get runs and releases the lock
Get(t) ==
    /\ thr[t].pc = "get"
    /\ lru' = [GetBody(lru, thr[t].key) EXCEPT !.lock = 0]
    /\ thr' = [thr EXCEPT ![t] = IdleThread]
    /\ ret' = GetValue(lru, thr[t].key)
    /\ UNCHANGED <<runnerVars, restVars, now, auxVars>>

\* optimized_benchmark_runner.py:93-95, put has to evict for a new key
Evicts(c, key) ==
    key \notin DOMAIN c.cache /\ Cardinality(DOMAIN c.cache) >= c.max_size

\* variant of MakeRoom: the most recently used entry is evicted
MakeRoomNewestMutant(c, key) ==
    IF key \in DOMAIN c.cache
    THEN [c EXCEPT !.order = Remove(@, key)]
    ELSE IF Evicts(c, key)
         THEN [c EXCEPT !.order = SubSeq(@, 1, Len(@) - 1),
                        !.cache = Del(@, c.order[Len(c.order)])]
         ELSE c

\* optimized_benchmark_runner.py:93-98, put makes room for the key
MakeRoom(c, key) ==
    IF key \in DOMAIN c.cache
    THEN [c EXCEPT !.order = Remove(@, key)]
    ELSE IF Evicts(c, key)
         THEN [c EXCEPT !.order = Tail(@), !.cache = Del(@, Head(c.order))]
         ELSE c

\* optimized_benchmark_runner.py:93-98
PutEvict(t) ==
    /\ thr[t].pc = "put"
    /\ lru' = MakeRoom(lru, thr[t].key)
    /\ thr' = [thr EXCEPT ![t].pc = "put_insert",
                          ![t].oldest = IF Evicts(lru, thr[t].key)
                                        THEN Head(lru.order) ELSE None]
    /\ UNCHANGED <<runnerVars, restVars, now, ret, auxVars>>

\* optimized_benchmark_runner.py:100-101, insert and release the lock
PutInsert(t) ==
    /\ thr[t].pc = "put_insert"
    /\ lru' = [lru EXCEPT !.cache = Store(@, thr[t].key, <<thr[t].value, now>>),
                          !.order = Append(@, thr[t].key),
                          !.lock = 0]
    /\ thr' = [thr EXCEPT ![t] = IdleThread]
    /\ UNCHANGED <<runnerVars, restVars, now, ret, auxVars>>

\* time passes
Tick ==
    /\ now < MaxTime
    /\ now' = now + 1
    /\ UNCHANGED <<runnerVars, restVars, lru, thr, ret, auxVars>>

\* runner.py:38-46, the defaults of BenchmarkRunner.__init__
DefaultConfig ==
    [iterations |-> 10, warmup |-> 0, timeout |-> FALSE, retry_on_error |-> FALSE,
     max_retries |-> 3, parallel |-> FALSE, workers |-> 4]

\* no cache is in use: a default LRUCache nobody calls
\* (optimized_benchmark_runner.py:64)
CacheUnused ==
    /\ lru = NewCache(1000, 3600)
    /\ now = 0
    /\ thr = [t \in Threads |-> IdleThread]
    /\ ret = None

\* no call has been made on the cache
NoHist == [key |-> None,        \* the key of the latest completed get, None after a put
           again |-> FALSE,     \* the get before it had the same key
           puts |-> 0]          \* the put calls made

\* ---- OptimizedBenchmarkRunner: construction and the persistent cache -------
MaxRunners == 2     \* runner objects are constructed one after the other, MaxRunners at most
MaxPuts == 2        \* the runners make MaxPuts put calls at most, all in all

\* the keys run_benchmark_async looks up
LoopKeys == {"k1", "k2"}

\* there is no file benchmark_cache.pkl.gz
Missing == [kind |-> "missing", items |-> <<>>]
\* the file is one gzip.open or pickle.load cannot read
Corrupt == [kind |-> "corrupt", items |-> <<>>]
\* the file pickle.dump has written from a dict with these items
Pickled(items) == [kind |-> "pickle", items |-> items]

\* Path.mkdir without parents=True, where the parent directory does not exist
FileNotFound == [type |-> "FileNotFoundError", message |-> <<"benchmarking/.cache">>]

\* no OptimizedBenchmarkRunner exists; cache_ttl is BenchmarkConfig.cache_ttl
\* (optimized_benchmark_runner.py:39)
NoRunner(cache_ttl) ==
    [pc |-> "none",
     cache_ttl |-> cache_ttl,
     gen |-> 0,             \* history: the runners constructed so far
     t0 |-> 0,              \* history: when the construction began
     puts0 |-> 0,           \* history: the put calls made before it began
     pending |-> <<>>,      \* the items of cache_data _warm_cache has yet to put
     error |-> NoError,     \* the exception __init__ raised
     origin |-> <<>>]       \* history: key -> when the value the cache holds for
                            \* it was first put, by this runner or an earlier one

\* the directory benchmarking, its subdirectory .cache, and the cache file
\* without anything a runner has written
Disks ==
    {d \in [parent : BOOLEAN, dir : BOOLEAN, file : {Missing, Corrupt},
            saved : {<<>>},     \* history: the entries of the cache the file was written from
            by : {0},           \* history: the runner that wrote the file
            origin : {<<>>}] :  \* history: key -> when the value saved for it was first put
        /\ d.dir => d.parent
        /\ d.file # Missing => d.dir}

\* the orders in which the keys of a dict can be listed
Orders(S) ==
    {o \in [1..Cardinality(S) -> S] : \A i, j \in DOMAIN o : i # j => o[i] # o[j]}

\* optimized_benchmark_runner.py:176-182: cache_data holds key -> value without
\* the timestamps, and pickle.dump writes its items in the order o of the dict
CacheData(c, o) == [i \in DOMAIN o |-> <<o[i], c.cache[o[i]][1]>>]

\* optimized_benchmark_runner.py:91-101, put as one step
Put(c, key, value) ==
    [MakeRoom(c, key) EXCEPT !.cache = Store(@, key, <<value, now>>),
                             !.order = Append(@, key)]

\* optimized_benchmark_runner.py:139-141, OptimizedBenchmarkRunner(config) is called
Construct ==
    /\ opt.pc = "none"
    /\ opt.gen < MaxRunners
    /\ opt' = [opt EXCEPT !.pc = "mkdir", !.gen = @ + 1, !.t0 = now,
                          !.puts0 = hist.puts]
    /\ lru' = NewCache(10000, opt.cache_ttl)
    /\ hist' = [NoHist EXCEPT !.puts = hist.puts]
    /\ ret' = None
    /\ UNCHANGED <<runnerVars, disk, smp, batch, col, now, thr, auxVars>>

\* optimized_benchmark_runner.py:143-144, Path("benchmarking/.cache").mkdir(exist_ok=True)
Mkdir ==
    /\ opt.pc = "mkdir"
    /\ IF disk.dir
       THEN opt' = [opt EXCEPT !.pc = "warm_cache"] /\ UNCHANGED disk
       ELSE IF disk.parent
            THEN /\ opt' = [opt EXCEPT !.pc = "warm_cache"]
                 /\ disk' = [disk EXCEPT !.dir = TRUE]
            ELSE /\ opt' = [opt EXCEPT !.pc = "raised", !.error = FileNotFound]
                 /\ UNCHANGED disk
    /\ UNCHANGED <<runnerVars, cacheVars, hist, smp, batch, col, auxVars>>

\* optimized_benchmark_runner.py:162-166,170-171: no file, a file that cannot
\* be read (the exception is caught and printed), or the items to put
WarmCache ==
    /\ opt.pc = "warm_cache"
    /\ opt' = IF disk.file \in {Missing, Corrupt}
              THEN [opt EXCEPT !.pc = "ready"]
              ELSE [opt EXCEPT !.pc = "warm_put", !.pending = disk.file.items]
    /\ UNCHANGED <<runnerVars, cacheVars, hist, disk, smp, batch, col, auxVars>>

\* variant of WarmPut: the item is dropped
WarmPutSkipMutant ==
    /\ opt.pc = "warm_put"
    /\ opt.pending # <<>>
    /\ opt' = [opt EXCEPT !.pending = Tail(@)]
    /\ UNCHANGED <<runnerVars, cacheVars, hist, disk, smp, batch, col, auxVars>>

\* optimized_benchmark_runner.py:167-168, self.cache.put(key, value) for the next item
WarmPut ==
    /\ opt.pc = "warm_put"
    /\ opt.pending # <<>>
    /\ lru' = Put(lru, Head(opt.pending)[1], Head(opt.pending)[2])
    /\ opt' = [opt EXCEPT !.pending = Tail(@),
                          !.origin = (Head(opt.pending)[1] :> disk.origin[Head(opt.pending)[1]]) @@ @]
    /\ UNCHANGED <<runnerVars, now, thr, ret, hist, disk, smp, batch, col, auxVars>>

\* optimized_benchmark_runner.py:169,153-158, the rest of __init__
WarmDone ==
    /\ opt.pc = "warm_put"
    /\ opt.pending = <<>>
    /\ opt' = [opt EXCEPT !.pc = "ready"]
    /\ UNCHANGED <<runnerVars, cacheVars, hist, disk, smp, batch, col, auxVars>>

\* optimized_benchmark_runner.py:192-196, run_benchmark_async looks its key
\* up with self.cache.get(key); nothing else calls get on the cache of a runner
LoopGet ==
    /\ opt.pc = "ready"
    /\ lru.hits + lru.misses < MaxLookups
    /\ \E key \in LoopKeys :
          /\ lru' = GetBody(lru, key)
          /\ ret' = GetValue(lru, key)
          /\ hist' = [hist EXCEPT !.key = key, !.again = hist.key = key]
    /\ UNCHANGED <<runnerVars, restVars, now, thr, auxVars>>

\* optimized_benchmark_runner.py:194,242, run_benchmark_async stores its result
\* with self.cache.put(key, value) under the key its get has missed
LoopPut ==
    /\ opt.pc = "ready"
    /\ hist.puts < MaxPuts
    /\ hist.key # None /\ ret = None
    /\ \E value \in Values : lru' = Put(lru, hist.key, value)
    /\ hist' = [NoHist EXCEPT !.puts = hist.puts + 1]
    /\ opt' = [opt EXCEPT !.origin = (hist.key :> now) @@ @]
    /\ UNCHANGED <<runnerVars, disk, smp, batch, col, now, thr, ret, auxVars>>

\* optimized_benchmark_runner.py:173-182,419-420, _persist_cache, which
\* run_qudag_benchmarks calls as its last step
Persist ==
    /\ opt.pc = "ready"
    /\ \E o \in Orders(DOMAIN lru.cache) :
          disk' = [disk EXCEPT !.file = Pickled(CacheData(lru, o)),
                               !.saved = [k \in DOMAIN lru.cache |-> lru.cache[k][1]],
                               !.by = opt.gen,
                               !.origin = [k \in DOMAIN lru.cache |-> opt.origin[k]]]
    /\ opt' = [opt EXCEPT !.pc = "persisted"]
    /\ UNCHANGED <<runnerVars, cacheVars, hist, smp, batch, col, auxVars>>

\* the process ends, and the runner and its cache with it
Exit ==
    /\ opt.pc \in {"ready", "persisted", "raised"}
    /\ opt' = [NoRunner(opt.cache_ttl) EXCEPT !.gen = opt.gen]
    /\ lru' = NewCache(10000, opt.cache_ttl)
    /\ hist' = [NoHist EXCEPT !.puts = hist.puts]
    /\ ret' = None
    /\ UNCHANGED <<runnerVars, disk, smp, batch, col, now, thr, auxVars>>

\* between two processes the directories and the file are removed or damaged
Tamper ==
    /\ opt.pc = "none"
    /\ disk' \in Disks \ {disk}
    /\ UNCHANGED <<runnerVars, cacheVars, hist, opt, smp, batch, col, auxVars>>

\* ---- OptimizedBenchmarkRunner._generate_cache_key --------------------------
MaxArgs == 1        \* a call passes at most MaxArgs positional arguments
MaxKwargs == 2      \* and at most MaxKwargs keyword arguments

BenchNames == {"lookup", "verify"}
Alphabet == <<"alpha", "beta", "gamma">>    \* keyword names, in string order
KwNames == {Alphabet[i] : i \in DOMAIN Alphabet}
Atoms == {1, 2}                             \* argument values json can write

\* the place of a keyword name in the order of str
Rank(k) == CHOOSE i \in DOMAIN Alphabet : Alphabet[i] = k

\* a tuple of positional arguments
ArgTuples == UNION {[1..n -> Atoms] : n \in 0..MaxArgs}

\* a dict of keyword arguments: its items in insertion order
KwargDicts ==
    {d \in UNION {[1..n -> KwNames \X Atoms] : n \in 0..MaxKwargs} :
        \A i, j \in DOMAIN d : i # j => d[i][1] # d[j][1]}

\* the mapping a dict stands for, whatever the order of insertion
AsMapping(d) ==
    [k \in {d[i][1] : i \in DOMAIN d} |->
        (CHOOSE v \in Atoms : \E i \in DOMAIN d : d[i] = <<k, v>>)]

\* sorted(): the item goes before the first item of s with a larger key
RECURSIVE InsertItem(_, _)
InsertItem(item, s) ==
    IF s = <<>> THEN <<item>>
    ELSE IF Rank(item[1]) < Rank(Head(s)[1]) THEN <<item>> \o s
    ELSE <<Head(s)>> \o InsertItem(item, Tail(s))

RECURSIVE SortItems(_)
SortItems(d) ==
    IF d = <<>> THEN <<>> ELSE InsertItem(Head(d), SortItems(Tail(d)))

\* variant of JsonDumps: json.dumps without sort_keys, the items are written
\* in insertion order
JsonDumpsUnsortedMutant(params) ==
    <<"{", <<"args", params.args>>, <<"kwargs", params.kwargs>>, "}">>

\* optimized_benchmark_runner.py:186, json.dumps(params, sort_keys=True) for
\* params = {"args": args, "kwargs": kwargs}: the text lists the items of every
\* dict by key, and the tuple args as a list
JsonDumps(params) ==
    <<"{", <<"args", params.args>>, <<"kwargs", SortItems(params.kwargs)>>, "}">>

\* optimized_benchmark_runner.py:187, hashlib.sha256(...).hexdigest(): the
\* digest is a function of the text and nothing else
Sha256(text) == [sha256 |-> text]

\* optimized_benchmark_runner.py:184-187
GenerateCacheKeyOf(benchmark_name, params) ==
    Sha256(<<benchmark_name, ":", JsonDumps(params)>>)

\* optimized_benchmark_runner.py:192, the arguments of one run_benchmark_async call
AsyncCalls == [name : BenchNames, args : ArgTuples, kwargs : KwargDicts]

\* optimized_benchmark_runner.py:192, the next of the two calls computes its key
GenerateCacheKey ==
    /\ Len(smp.keys) < Len(smp.calls)
    /\ LET c == smp.calls[Len(smp.keys) + 1]
       IN  smp' = [smp EXCEPT !.keys = Append(@,
                      GenerateCacheKeyOf(c.name, [args |-> c.args, kwargs |-> c.kwargs]))]
    /\ UNCHANGED <<runnerVars, cacheVars, hist, disk, opt, batch, col, auxVars>>

\* ---- OptimizedBenchmarkRunner.run_benchmark_async ---------------------------
MaxAsyncWarmup == 5         \* warmup_iterations ranges over 0..MaxAsyncWarmup
MaxAsyncIterations == 5     \* iterations ranges over 1..MaxAsyncIterations

Durations == {10, 11}       \* elapsed_us of one measured iteration
min_iterations == 5         \* optimized_benchmark_runner.py:204

\* optimized_benchmark_runner.py:33-42, BenchmarkConfig
AsyncConfigs ==
    [warmup_iterations : 0..MaxAsyncWarmup, iterations : 1..MaxAsyncIterations,
     adaptive_sampling : BOOLEAN]

\* statistics.mean of no data
StatisticsError == [type |-> "StatisticsError", message |-> <<"mean requires at least one data point">>]

\* the one call made: run_benchmark_async("lookup", func)
TheCall == [name |-> "lookup", args |-> <<>>, kwargs |-> <<>>]

\* no run_benchmark_async call has been made on the runner with config cfg
NoAsync(cfg) ==
    [pc |-> "idle",
     config |-> cfg,
     cache_key |-> None,
     max_iterations |-> 0,
     current_iterations |-> 0,
     stop |-> 0,            \* the end of range(current_iterations), fixed when the loop starts
     it |-> 0,              \* the next value the range iterator yields
     samples |-> <<>>,
     result |-> None,
     error |-> NoError,
     calls |-> 0,           \* history: the invocations of the workload
     before |-> 0,          \* history: the invocations made before this call
     live |-> FALSE,        \* history: the key had a live entry when called
     miss_results |-> <<>>] \* the result objects that the calls which ran the
                            \* workload returned, as their callers see them now

RECURSIVE Sum(_)
Sum(s) == IF s = <<>> THEN 0 ELSE Head(s) + Sum(Tail(s))

\* optimized_benchmark_runner.py:255-262, _is_stable with threshold 0.05.
\* With n samples, S their sum and Q the sum of their squares,
\* stdev^2 = (n*Q - S^2) / (n*(n-1)) and mean = S/n, so for mean > 0
\* stdev/mean < 1/20 iff 400 * n * (n*Q - S^2) < (n-1) * S^2
IsStable(samples) ==
    LET n == Len(samples)
        S == Sum(samples)
        Q == Sum([j \in DOMAIN samples |-> samples[j] * samples[j]])
    IN  IF n < 3 THEN FALSE
        ELSE S > 0 /\ 400 * n * (n * Q - S * S) < (n - 1) * S * S

\* min(a, b)
Min(a, b) == IF a < b THEN a ELSE b

\* optimized_benchmark_runner.py:231-239, the OptimizedResult of the samples
OptimizedResult(call_name, samples) ==
    [name |-> call_name, samples |-> Len(samples), mean_time_us |-> Sum(samples) \div Len(samples),
     cache_hit |-> FALSE]

\* the cache holds an entry for key that is younger than ttl_seconds
Live(c, key) ==
    key \in DOMAIN c.cache /\ now - c.cache[key][2] < c.ttl_seconds

\* variant of AsyncCall: the workload is run without looking at the cache
AsyncCallNoLookupMutant ==
    /\ smp.pc = "idle"
    /\ LET key == GenerateCacheKeyOf(TheCall.name, [args |-> TheCall.args, kwargs |-> TheCall.kwargs])
           iterations == smp.config.warmup_iterations + smp.config.iterations
           current == IF smp.config.adaptive_sampling THEN min_iterations ELSE iterations
       IN  /\ lru' = lru
           /\ smp' = [smp EXCEPT !.pc = "loop", !.cache_key = key,
                                 !.before = smp.calls,
                                 !.live = Live(lru, key),
                                 !.max_iterations = iterations,
                                 !.current_iterations = current,
                                 !.stop = current,
                                 !.it = 0]
    /\ UNCHANGED <<runnerVars, now, thr, ret, hist, disk, opt, batch, col, auxVars>>

\* optimized_benchmark_runner.py:191-211: the key is looked up; a hit returns
\* the cached result marked as a hit, a miss sets up the loop
AsyncCall ==
    /\ smp.pc = "idle"
    /\ LET key == GenerateCacheKeyOf(TheCall.name, [args |-> TheCall.args, kwargs |-> TheCall.kwargs])
           hit == key \in DOMAIN lru.cache /\ now - lru.cache[key][2] < lru.ttl_seconds
           cached == GetValue(lru, key)
           iterations == smp.config.warmup_iterations + smp.config.iterations
           current == IF smp.config.adaptive_sampling THEN min_iterations ELSE iterations
       IN  IF hit
           THEN /\ lru' = [GetBody(lru, key) EXCEPT !.cache[key][1].cache_hit = TRUE]
                /\ smp' = [smp EXCEPT !.pc = "returned", !.cache_key = key,
                                      !.before = smp.calls,
                                      !.live = Live(lru, key),
                                      !.result = [cached EXCEPT !.cache_hit = TRUE],
                                      \* the cached object is the one the last
                                      \* miss put and returned: line 195 sets
                                      \* the attribute on that object
                                      !.miss_results[Len(smp.miss_results)] =
                                          [cached EXCEPT !.cache_hit = TRUE]]
           ELSE /\ lru' = GetBody(lru, key)
                /\ smp' = [smp EXCEPT !.pc = "loop", !.cache_key = key,
                                      !.before = smp.calls,
                                      !.live = Live(lru, key),
                                      !.max_iterations = iterations,
                                      !.current_iterations = current,
                                      !.stop = current,
                                      !.it = 0]
    /\ UNCHANGED <<runnerVars, now, thr, ret, hist, disk, opt, batch, col, auxVars>>

\* optimized_benchmark_runner.py:211-215, a warmup run, not counted
AsyncWarmup ==
    /\ smp.pc = "loop"
    /\ smp.it < smp.stop
    /\ smp.it < smp.config.warmup_iterations
    /\ smp' = [smp EXCEPT !.it = @ + 1, !.calls = @ + 1]
    /\ UNCHANGED <<runnerVars, cacheVars, hist, disk, opt, batch, col, auxVars>>

\* optimized_benchmark_runner.py:211,217-227, a measured run and the adaptive
\* check; raising current_iterations does not move the end of the range
AsyncMeasure ==
    /\ smp.pc = "loop"
    /\ smp.it < smp.stop
    /\ smp.it >= smp.config.warmup_iterations
    /\ \E elapsed_us \in Durations :
          LET i == smp.it
              samples == Append(smp.samples, elapsed_us)
              check == smp.config.adaptive_sampling
                       /\ i >= min_iterations + smp.config.warmup_iterations
          IN  smp' = [smp EXCEPT
                        !.it = @ + 1,
                        !.calls = @ + 1,
                        !.samples = samples,
                        !.pc = IF check /\ IsStable(samples) THEN "stats" ELSE "loop",
                        !.current_iterations =
                            IF check /\ ~IsStable(samples) /\ i < smp.max_iterations - 1
                            THEN Min(@ + 2, smp.max_iterations) ELSE @]
    /\ UNCHANGED <<runnerVars, cacheVars, hist, disk, opt, batch, col, auxVars>>

\* optimized_benchmark_runner.py:211, the range is exhausted
AsyncLoopEnd ==
    /\ smp.pc = "loop"
    /\ smp.it >= smp.stop
    /\ smp' = [smp EXCEPT !.pc = "stats"]
    /\ UNCHANGED <<runnerVars, cacheVars, hist, disk, opt, batch, col, auxVars>>

\* optimized_benchmark_runner.py:229-244: statistics.mean raises on no sample;
\* otherwise the result is built, cached and returned
AsyncStats ==
    /\ smp.pc = "stats"
    /\ IF smp.samples = <<>>
       THEN /\ smp' = [smp EXCEPT !.pc = "raised", !.error = StatisticsError]
            /\ UNCHANGED lru
       ELSE LET result == OptimizedResult(TheCall.name, smp.samples)
            IN  /\ smp' = [smp EXCEPT !.pc = "returned", !.result = result,
                                      !.miss_results = Append(@, result)]
                /\ lru' = Put(lru, smp.cache_key, result)
    /\ UNCHANGED <<runnerVars, now, thr, ret, hist, disk, opt, batch, col, auxVars>>

\* the caller makes the call again
AsyncAgain ==
    /\ smp.pc = "returned"
    /\ smp.result.cache_hit = FALSE
    /\ smp' = [NoAsync(smp.config) EXCEPT !.calls = smp.calls,
                                          !.miss_results = smp.miss_results]
    /\ UNCHANGED <<runnerVars, cacheVars, hist, disk, opt, batch, col, auxVars>>

\* ---- OptimizedBenchmarkRunner.optimize_for_batching -------------------------
MaxBatchSize == 10      \* batch_size ranges over 1..MaxBatchSize
MaxRequests == 25       \* 1..MaxRequests calls of the batched wrapper are made

\* optimized_benchmark_runner.py:153-155,311: nothing is queued, batch_lock
\* (a threading.Lock, not reentrant) is free, and requests calls will be made
NoBatch(batch_size, requests) ==
    [batch_size |-> batch_size,
     requests |-> requests,
     has_batch |-> FALSE,   \* hasattr(func, '__batch__')
     failing |-> {},        \* the arguments on which func raises
     sent |-> <<>>,         \* history: sent[r], the arguments of request r
     batch_calls |-> <<>>,  \* history: the all_args of each call of func.__batch__
     queue |-> <<>>,        \* batch_queues[func.__name__]: (args, future) per request
     lock |-> 0,            \* the call holding batch_lock, 0 if it is free
     pc |-> <<>>,           \* pc[r]: where call r of the wrapper stands
     future |-> <<>>,       \* future[r]: "pending", or the result set on it
     flushes |-> <<>>]      \* history: the sizes of the batches dispatched

\* optimized_benchmark_runner.py:314-325, the next call of batched_wrapper, up
\* to its first wait. The calls run on the event loop's one thread, so a call
\* starts only while no call is blocked. It takes batch_lock and appends its
\* request; below batch_size it releases the lock and awaits its future, at
\* batch_size it awaits _process_batch with the lock still held
BatchedWrapper(args) ==
    /\ Len(batch.pc) < batch.requests
    /\ \A r \in DOMAIN batch.pc : batch.pc[r] # "process_batch"
    /\ batch.lock = 0
    /\ LET r == Len(batch.pc) + 1
           queue == Append(batch.queue, <<args, r>>)
           full == Len(queue) >= batch.batch_size
       IN  batch' = [batch EXCEPT
                        !.queue = queue,
                        !.sent = Append(@, args),
                        !.future = Append(@, "pending"),
                        !.pc = Append(@, IF full THEN "process_batch" ELSE "await_future"),
                        !.lock = IF full THEN r ELSE 0]
    /\ UNCHANGED <<runnerVars, cacheVars, hist, disk, opt, smp, col, auxVars>>

\* optimized_benchmark_runner.py:343-358, how the try block of _process_batch
\* can end: the one call of func.__batch__ returns or raises; without it,
\* asyncio.gather(*tasks) returns all results, or raises the exception of a
\* request that raised
Outcomes(b) ==
    IF b.has_batch
    THEN {"result", "exception"}
    ELSE IF \E j \in DOMAIN b.queue : b.queue[j][1] \in b.failing
         THEN {"exception"}
         ELSE {"result"}

\* optimized_benchmark_runner.py:331-358, the batch is taken off the queue
\* and every future of it is set: to its result after a success (348-351),
\* to the exception after a failure (352-355)
Flushed(b, outcome) ==
    [b EXCEPT
        !.queue = <<>>,
        !.future = [q \in DOMAIN @ |->
                       IF \E j \in DOMAIN b.queue : b.queue[j][2] = q
                       THEN outcome ELSE @[q]],
        !.flushes = Append(@, Len(b.queue)),
        !.batch_calls =
            IF b.has_batch
            THEN Append(@, [j \in DOMAIN b.queue |-> b.queue[j][1]])
            ELSE @]

\* optimized_benchmark_runner.py:329-358,325: _process_batch takes batch_lock
\* to empty the queue, runs the requests of the batch (one call of
\* func.__batch__ with all their arguments if func has it) and sets every
\* future of the batch to its result, or to the exception if that failed;
\* back in the wrapper the lock is released and the future awaited. The
\* wrapper that awaits _process_batch holds batch_lock itself, so the
\* acquisition on line 331 never succeeds
ProcessBatch(r) ==
    /\ batch.pc[r] = "process_batch"
    /\ batch.lock = 0
    /\ \E outcome \in Outcomes(batch) :
         batch' = [Flushed(batch, outcome) EXCEPT !.pc[r] = "await_future"]
    /\ UNCHANGED <<runnerVars, cacheVars, hist, disk, opt, smp, col, auxVars>>

\* optimized_benchmark_runner.py:329-358, _process_batch awaited by a caller
\* of its own, outside the wrapper, while requests are queued and batch_lock
\* is free
DirectProcessBatch ==
    /\ batch.lock = 0
    /\ batch.queue # <<>>
    /\ \E outcome \in Outcomes(batch) : batch' = Flushed(batch, outcome)
    /\ UNCHANGED <<runnerVars, cacheVars, hist, disk, opt, smp, col, auxVars>>

\* ---- MetricCollector: continuous collection (metrics/collector.py) ----------
MaxStarts == 2      \* start_continuous_collection starts a thread MaxStarts times at most
MaxSamples == 2     \* a timeline holds MaxSamples samples at most

\* ---- metric sources and what collecting from them gives --------------------
\* what the collect() of a source does: it returns a non-empty mapping, an
\* empty one, or raises
Behaviours == {"data", "empty", "raises"}

\* a metric source: an object with a collect() method
Source(id, does) == [id |-> id, does |-> does]

\* the sources a caller registers with add_metric
CustomSources == {Source("CustomMetric", d) : d \in Behaviours}

\* the names metrics are registered under
MetricNames == {"memory", "cpu", "latency", "custom"}

\* a collected mapping is the set of its entries, named after their origin
NoData == {}

\* what the last call on the collector did: the call, the source whose
\* collect() it called, whether that raised, and how the call ended
NoOutcome ==
    [op |-> "none", name |-> "none", ignore_errors |-> TRUE,
     source |-> "none", failed |-> FALSE,
     kind |-> "none", data |-> NoData, all |-> [n \in {} |-> NoData],
     error |-> "none"]

\* collector.py:19-42, MetricCollector.__init__
NewCollector ==
    [metrics |-> [n \in {} |-> Source("none", "empty")],
     available_metrics |->
         [n \in {"memory", "cpu", "latency"} |->
             CASE n = "memory" -> Source("MemoryMetric", "data")
               [] n = "cpu" -> Source("CPUMetric", "data")
               [] OTHER -> Source("LatencyMetric", "data")],
     operation_timings |-> FALSE,  \* some operation was started and ended
     out |-> NoOutcome,            \* history: the last call and its outcome
     is_collecting |-> FALSE,
     continuous_stop |-> FALSE,
     continuous_thread |-> 0,   \* the thread _continuous_thread names, 0 for None
     continuous_data |-> <<>>,  \* per sample, the thread that appended it
     threads |-> <<>>,          \* threads[t]: the collect_loop thread t
     caller |-> "idle",         \* where the caller of start and stop stands
     starts |-> 0,              \* history: the collections started
     returned |-> [collection |-> 0, length |-> 0]]
                                \* history: the collection whose timeline stop
                                \* last returned, and its length at that time

\* collector.py:124-126, a thread about to test the loop condition
NewLoop == [pc |-> "check",
            seen |-> 0]     \* history: the collection in which it last found
                            \* _continuous_stop false

\* collector.py:104-126, start_continuous_collection; a call while
\* is_collecting returns at once
StartContinuousCollection ==
    /\ col.caller = "idle"
    /\ IF col.is_collecting
       THEN UNCHANGED col
       ELSE /\ Len(col.threads) < MaxStarts
            /\ col' = [col EXCEPT !.is_collecting = TRUE,
                                  !.continuous_data = <<>>,
                                  !.continuous_stop = FALSE,
                                  !.threads = Append(@, NewLoop),
                                  !.continuous_thread = Len(col.threads) + 1,
                                  !.starts = @ + 1]
    /\ UNCHANGED <<runnerVars, cacheVars, hist, disk, opt, smp, batch, auxVars>>

\* collector.py:115-117, thread t tests the flag: it ends, or goes on to
\* take a sample with collect_all()
LoopCheck(t) ==
    /\ col.threads[t].pc = "check"
    /\ IF col.continuous_stop
       THEN col' = [col EXCEPT !.threads[t].pc = "dead"]
       ELSE /\ Len(col.continuous_data) < MaxSamples
            /\ col' = [col EXCEPT !.threads[t] = [pc |-> "collect", seen |-> col.starts]]
    /\ UNCHANGED <<runnerVars, cacheVars, hist, disk, opt, smp, batch, auxVars>>

\* collector.py:117-121, collect_all() has returned: thread t appends the
\* sample to the list self._continuous_data names at that moment
LoopAppend(t) ==
    /\ col.threads[t].pc = "collect"
    /\ col' = [col EXCEPT !.threads[t].pc = "sleep",
                          !.continuous_data = Append(@, t)]
    /\ UNCHANGED <<runnerVars, cacheVars, hist, disk, opt, smp, batch, auxVars>>

\* collector.py:122, time.sleep(self._continuous_interval) is over
LoopWake(t) ==
    /\ col.threads[t].pc = "sleep"
    /\ col' = [col EXCEPT !.threads[t].pc = "check"]
    /\ UNCHANGED <<runnerVars, cacheVars, hist, disk, opt, smp, batch, auxVars>>

\* collector.py:128-135, stop_continuous_collection sets the flag and joins
\* the thread; a call while not collecting returns []
StopContinuousCollection ==
    /\ col.caller = "idle"
    /\ IF col.is_collecting
       THEN col' = [col EXCEPT !.continuous_stop = TRUE, !.caller = "join"]
       ELSE UNCHANGED col
    /\ UNCHANGED <<runnerVars, cacheVars, hist, disk, opt, smp, batch, auxVars>>

\* collector.py:135-138, the thread has ended and join returns
JoinEnded ==
    /\ col.caller = "join"
    /\ col.threads[col.continuous_thread].pc = "dead"
    /\ col' = [col EXCEPT !.is_collecting = FALSE, !.caller = "idle",
                          !.returned = [collection |-> col.starts,
                                        length |-> Len(col.continuous_data)]]
    /\ UNCHANGED <<runnerVars, cacheVars, hist, disk, opt, smp, batch, auxVars>>

\* collector.py:135-138, join(timeout=1) returns after a second with the
\* thread still sleeping or collecting
JoinTimedOut ==
    /\ col.caller = "join"
    /\ col.threads[col.continuous_thread].pc # "dead"
    /\ col' = [col EXCEPT !.is_collecting = FALSE, !.caller = "idle",
                          !.returned = [collection |-> col.starts,
                                        length |-> Len(col.continuous_data)]]
    /\ UNCHANGED <<runnerVars, cacheVars, hist, disk, opt, smp, batch, auxVars>>

\* ---- MetricCollector: registry and collection (metrics/collector.py) ------
\* collector.py:44-46, add_metric
AddMetric(n, src) ==
    /\ col' = [col EXCEPT !.available_metrics = (n :> src) @@ @,
                          !.out = [NoOutcome EXCEPT !.op = "add_metric",
                                     !.name = n, !.kind = "return"]]
    /\ UNCHANGED <<runnerVars, cacheVars, hist, disk, opt, smp, batch, auxVars>>

\* collector.py:48-52, enable_metric; an unknown name raises ValueError
EnableMetric(n) ==
    /\ IF n \notin DOMAIN col.available_metrics
       THEN col' = [col EXCEPT !.out = [NoOutcome EXCEPT !.op = "enable_metric",
                                          !.name = n, !.kind = "raise",
                                          !.error = "ValueError"]]
       ELSE col' = [col EXCEPT !.metrics = (n :> col.available_metrics[n]) @@ @,
                               !.out = [NoOutcome EXCEPT !.op = "enable_metric",
                                          !.name = n, !.kind = "return"]]
    /\ UNCHANGED <<runnerVars, cacheVars, hist, disk, opt, smp, batch, auxVars>>

\* collector.py:140-154, start_operation followed by end_operation
TimeOperation ==
    /\ ~col.operation_timings
    /\ col' = [col EXCEPT !.operation_timings = TRUE,
                          !.out = [NoOutcome EXCEPT !.op = "end_operation",
                                     !.kind = "return"]]
    /\ UNCHANGED <<runnerVars, cacheVars, hist, disk, opt, smp, batch, auxVars>>

\* collector.py:156-175, _collect_latency_metrics: one entry per operation
\* that has a completed timing
CollectLatencyMetrics(c) ==
    IF c.operation_timings THEN {"latency of operation"} ELSE NoData

\* variant of CollectOf: an error of the source is swallowed in every case
CollectOfSwallowMutant(c, n, ignore_errors) ==
    LET base == [NoOutcome EXCEPT !.op = "collect", !.name = n,
                                  !.ignore_errors = ignore_errors]
        src == c.available_metrics[n]
    IN IF n \notin DOMAIN c.available_metrics
       THEN [base EXCEPT !.kind = "return"]
       ELSE IF n = "latency"
       THEN [base EXCEPT !.kind = "return", !.data = CollectLatencyMetrics(c)]
       ELSE IF src.does = "raises"
       THEN [base EXCEPT !.source = src.id, !.failed = TRUE, !.kind = "return"]
       ELSE [base EXCEPT !.source = src.id, !.kind = "return",
                         !.data = IF src.does = "data" THEN {src.id} ELSE NoData]

\* collector.py:54-79, collect(metric_name, ignore_errors): how the call ends
CollectOf(c, n, ignore_errors) ==
    LET base == [NoOutcome EXCEPT !.op = "collect", !.name = n,
                                  !.ignore_errors = ignore_errors]
        src == c.available_metrics[n]
    IN IF n \notin DOMAIN c.available_metrics
       THEN [base EXCEPT !.kind = "return"]
       ELSE IF n = "latency"
       THEN [base EXCEPT !.kind = "return", !.data = CollectLatencyMetrics(c)]
       ELSE IF src.does = "raises"
       THEN IF ignore_errors
            THEN [base EXCEPT !.source = src.id, !.failed = TRUE,
                              !.kind = "return"]
            ELSE [base EXCEPT !.source = src.id, !.failed = TRUE,
                              !.kind = "raise", !.error = src.id]
       ELSE [base EXCEPT !.source = src.id, !.kind = "return",
                         !.data = IF src.does = "data" THEN {src.id} ELSE NoData]

\* collector.py:54-79, a call of collect
CollectMetric(n, ignore_errors) ==
    /\ col' = [col EXCEPT !.out = CollectOf(col, n, ignore_errors)]
    /\ UNCHANGED <<runnerVars, cacheVars, hist, disk, opt, smp, batch, auxVars>>

\* collector.py:81-102, collect_all(): the enabled names whose collect(name)
\* gives a non-empty mapping, each with that mapping
CollectAllOf(c) ==
    LET got == {n \in DOMAIN c.metrics : CollectOf(c, n, TRUE).data # NoData}
    IN [n \in got |-> CollectOf(c, n, TRUE).data]

\* collector.py:81-102, a call of collect_all without a filter
CollectAll ==
    /\ col' = [col EXCEPT !.out = [NoOutcome EXCEPT !.op = "collect_all",
                                      !.kind = "return",
                                      !.all = CollectAllOf(col)]]
    /\ UNCHANGED <<runnerVars, cacheVars, hist, disk, opt, smp, batch, auxVars>>

\* ---- operation timings (metrics/collector.py, metrics/latency.py) -----------
MaxOps == 4     \* at most MaxOps calls of start_operation and end_operation are made

OpNames == {"read", "write"}    \* operation names
NoEnd == -1                     \* "end": None of a timing that is still open

\* collector.py:29 and latency.py:14-17: no operation has been timed on the
\* object, a MetricCollector or a LatencyMetric
NoTimings(object) ==
    [object |-> object,
     operation_timings |-> [n \in {} |-> <<>>],
         \* MetricCollector: name -> timings [start, end], in starting order
         \* LatencyMetric: name -> durations, in closing order
     active_operations |-> [n \in {} |-> <<>>],
         \* LatencyMetric: name -> start times of the open timings
     calls |-> 0,               \* history: the calls made; call c is made at time c
     last |-> <<"none", "none">>]   \* history: the last call and its name

\* a defaultdict(list) read at a name
At(d, n) == IF n \in DOMAIN d THEN d[n] ELSE <<>>

\* collector.py:140-145, MetricCollector.start_operation
CollectorStartOperation(n) ==
    /\ lat.object = "MetricCollector"
    /\ lat.calls < MaxOps
    /\ lat' = [lat EXCEPT
                 !.operation_timings =
                     (n :> Append(At(@, n), [start |-> lat.calls + 1, end |-> NoEnd])) @@ @,
                 !.calls = @ + 1,
                 !.last = <<"start_operation", n>>]
    /\ UNCHANGED <<runnerVars, cacheVars, optVars, pool>>

\* collector.py:150-154: the index of the timing that end_operation closes,
\* the last one in the list whose end is None; 0 if there is none
LastUnfinished(timings) ==
    IF \A j \in DOMAIN timings : timings[j].end # NoEnd THEN 0
    ELSE CHOOSE j \in DOMAIN timings :
            /\ timings[j].end = NoEnd
            /\ \A h \in DOMAIN timings : h > j => timings[h].end # NoEnd

\* collector.py:147-154, MetricCollector.end_operation
CollectorEndOperation(n) ==
    /\ lat.object = "MetricCollector"
    /\ lat.calls < MaxOps
    /\ LET timings == At(lat.operation_timings, n)
           j == LastUnfinished(timings)
       IN  lat' = [lat EXCEPT
                     !.operation_timings =
                         IF n \in DOMAIN @ /\ j # 0
                         THEN [@ EXCEPT ![n][j].end = lat.calls + 1]
                         ELSE @,
                     !.calls = @ + 1,
                     !.last = <<"end_operation", n>>]
    /\ UNCHANGED <<runnerVars, cacheVars, optVars, pool>>

\* latency.py:19-36, LatencyMetric.start_operation
MetricStartOperation(n) ==
    /\ lat.object = "LatencyMetric"
    /\ lat.calls < MaxOps
    /\ lat' = [lat EXCEPT
                 !.active_operations = (n :> Append(At(@, n), lat.calls + 1)) @@ @,
                 !.calls = @ + 1,
                 !.last = <<"start_operation", n>>]
    /\ UNCHANGED <<runnerVars, cacheVars, optVars, pool>>

\* latency.py:38-56, LatencyMetric.end_operation: pop(0) takes the first
\* start time of the list
MetricEndOperation(n) ==
    /\ lat.object = "LatencyMetric"
    /\ lat.calls < MaxOps
    /\ LET active == At(lat.active_operations, n)
       IN  IF active # <<>>
           THEN lat' = [lat EXCEPT
                          !.active_operations[n] = Tail(active),
                          !.operation_timings =
                              (n :> Append(At(@, n), (lat.calls + 1) - Head(active))) @@ @,
                          !.calls = @ + 1,
                          !.last = <<"end_operation", n>>]
           ELSE lat' = [lat EXCEPT !.calls = @ + 1,
                                   !.last = <<"end_operation", n>>]
    /\ UNCHANGED <<runnerVars, cacheVars, optVars, pool>>

\* the elements of a sequence
Elements(q) == {q[j] : j \in DOMAIN q}

\* the start times of the timings of name n that are open on the object
OpenStarts(l, n) ==
    IF l.object = "MetricCollector"
    THEN {t.start : t \in {x \in Elements(At(l.operation_timings, n)) : x.end = NoEnd}}
    ELSE Elements(At(l.active_operations, n))

\* collector.py:156-175 and latency.py:58-79: the latencies of name n that the
\* aggregate is computed from, as the set of (position, duration) pairs
CountedLatencies(l, n) ==
    LET timings == At(l.operation_timings, n) IN
    IF l.object = "MetricCollector"
    THEN {<<j, timings[j].end - timings[j].start>> :
             j \in {h \in DOMAIN timings : timings[h].end # NoEnd}}
    ELSE {<<j, timings[j]>> : j \in DOMAIN timings}

\* ---- MemoryPool (optimized_benchmark_runner.py:108-134) ----------------------
MaxBuffers == 3     \* at most MaxBuffers buffers are created
PoolThreads == 2    \* the threads that use the pool are 1..PoolThreads

\* optimized_benchmark_runner.py:110-115, MemoryPool.__init__. A buffer is a
\* number, its id(); its content is 0, all zero bytes, or the thread that wrote
\* to it last.
NewPool(max_blocks) ==
    [max_blocks |-> max_blocks,
     free_blocks |-> <<>>,
     used_blocks |-> {},
     content |-> [b \in {} |-> 0],      \* the buffers created and their contents
     refs |-> [t \in 1..PoolThreads |-> {}],
         \* the buffers a thread has a reference to: allocate returned them to it
     holds |-> [t \in 1..PoolThreads |-> {}],
         \* the buffers allocate returned to a thread that it has not passed to
         \* deallocate since
     returned |-> [block |-> 0, content |-> 0]]
         \* history: the buffer the last allocate returned, with its content then

\* optimized_benchmark_runner.py:117-124, MemoryPool.allocate, the whole body
\* under the lock: pop() takes the last free buffer, and a new buffer is
\* created whenever the free list is empty
Allocate(t) ==
    /\ LET free == pool.free_blocks
           fresh == Cardinality(DOMAIN pool.content) + 1
           block == IF free # <<>> THEN free[Len(free)] ELSE fresh
           content == IF free # <<>> THEN pool.content ELSE (fresh :> 0) @@ pool.content
       IN  /\ free = <<>> => fresh <= MaxBuffers
           /\ pool' = [pool EXCEPT
                         !.free_blocks = IF free # <<>> THEN SubSeq(free, 1, Len(free) - 1)
                                         ELSE free,
                         !.content = content,
                         !.used_blocks = @ \cup {block},
                         !.refs[t] = @ \cup {block},
                         !.holds[t] = @ \cup {block},
                         !.returned = [block |-> block, content |-> content[block]]]
    /\ UNCHANGED <<runnerVars, cacheVars, optVars, lat>>

\* optimized_benchmark_runner.py:126-134, MemoryPool.deallocate, the whole body
\* under the lock, called by a thread with a buffer it has a reference to
Deallocate(t, block) ==
    /\ block \in pool.refs[t]
    /\ LET in_use == block \in pool.used_blocks
           kept == in_use /\ Len(pool.free_blocks) < pool.max_blocks
       IN  pool' = [pool EXCEPT
                      !.used_blocks = @ \ {block},
                      !.content[block] = IF kept THEN 0 ELSE @,
                      !.free_blocks = IF kept THEN Append(@, block) ELSE @,
                      !.holds[t] = @ \ {block}]
    /\ UNCHANGED <<runnerVars, cacheVars, optVars, lat>>

\* a thread writes to a buffer it holds
WriteBlock(t, block) ==
    /\ block \in pool.holds[t]
    /\ pool.content[block] # t
    /\ pool' = [pool EXCEPT !.content[block] = t]
    /\ UNCHANGED <<runnerVars, cacheVars, optVars, lat>>

\* ---- nothing but the runner or the cache is in use -------------------------
OptUnused ==
    /\ hist = NoHist
    /\ disk = None
    /\ opt = None
    /\ smp = None
    /\ batch = None
    /\ col = None

\* ---- a direct call of run -------------------------------------------------
\* the caller invokes runner.run(workload)
RunCall ==
    /\ suite.pc = "none"
    /\ \E mc \in Collectors : Enter(1, mc)
    /\ UNCHANGED <<config, benchmarks, name, suite, cacheVars, optVars, auxVars>>

InitRun ==
    /\ config \in Configs(MaxIterations, MaxWarmup, MaxRetries, {FALSE}, {4})
    /\ benchmarks \in [1..1 -> Names]
    /\ name = [r \in 0..1 |-> NoName]
    /\ run = [k \in 1..1 |-> NewRun]
    /\ suite = NoSuite
    /\ lat = None
    /\ pool = None
    /\ CacheUnused
    /\ OptUnused

NextRun ==
    \/ RunCall
    \/ RunStep(1)

SpecRun == InitRun /\ [][NextRun]_vars

\* ---- BenchmarkRunner.run_suite --------------------------------------------
\* runner.py:168-171,176,194, run_suite dispatches on self.parallel
RunSuite ==
    /\ suite.pc = "none"
    /\ suite' = [suite EXCEPT !.pc = IF config.parallel THEN "submit" ELSE "seq_loop"]
    /\ UNCHANGED <<config, benchmarks, name, run, cacheVars, optVars, auxVars>>

\* runner.py:156-171, the metric_collector argument of run_suite, handed on
\* to every run: the suite is called with its default
suite_collector == NoCollector

\* variant of SeqNext: self.name is not set to the pair's name
SeqNextNoRenameMutant ==
    /\ suite.pc = "seq_loop"
    /\ suite.idx < NB
    /\ suite' = [suite EXCEPT !.pc = "seq_run", !.idx = @ + 1,
                              !.original_name = name[0]]
    /\ Enter(suite.idx + 1, suite_collector)
    /\ UNCHANGED <<config, benchmarks, name, cacheVars, optVars, auxVars>>

\* ---- BenchmarkRunner._run_sequential --------------------------------------
\* runner.py:178-183, next pair: self.name = name, then run(func) is called
SeqNext ==
    /\ suite.pc = "seq_loop"
    /\ suite.idx < NB
    /\ suite' = [suite EXCEPT !.pc = "seq_run", !.idx = @ + 1,
                              !.original_name = name[0]]
    /\ name' = [name EXCEPT ![0] = benchmarks[suite.idx + 1]]
    /\ Enter(suite.idx + 1, suite_collector)
    /\ UNCHANGED <<config, benchmarks, cacheVars, optVars, auxVars>>

\* runner.py:183-187, run returned: append its result, restore self.name
SeqReturn ==
    /\ suite.pc = "seq_run"
    /\ run[suite.idx].pc = "done"
    /\ suite' = [suite EXCEPT !.pc = "seq_loop",
                              !.results = Append(@, run[suite.idx].result[1])]
    /\ name' = [name EXCEPT ![0] = suite.original_name]
    /\ UNCHANGED <<config, benchmarks, run, cacheVars, optVars, auxVars>>

\* variant of SeqRaise: the exception is swallowed and the loop goes on
SeqRaiseSwallowMutant ==
    /\ suite.pc = "seq_run"
    /\ run[suite.idx].pc = "raised"
    /\ suite' = [suite EXCEPT !.pc = "seq_loop"]
    /\ UNCHANGED <<config, benchmarks, name, run, cacheVars, optVars, auxVars>>

\* runner.py:183, run raised: the exception leaves _run_sequential
SeqRaise ==
    /\ suite.pc = "seq_run"
    /\ run[suite.idx].pc = "raised"
    /\ suite' = [suite EXCEPT !.pc = "raised", !.error = run[suite.idx].error,
                              !.failed = suite.idx]
    /\ UNCHANGED <<config, benchmarks, name, run, cacheVars, optVars, auxVars>>

\* runner.py:178,189, the loop is exhausted: return results
SeqDone ==
    /\ suite.pc = "seq_loop"
    /\ suite.idx = NB
    /\ suite' = [suite EXCEPT !.pc = "returned"]
    /\ UNCHANGED <<config, benchmarks, name, run, cacheVars, optVars, auxVars>>

\* ---- BenchmarkRunner._run_parallel ----------------------------------------
\* runner.py:200-204, a fresh runner named after the pair is submitted
Submit ==
    /\ suite.pc = "submit"
    /\ suite.idx < NB
    /\ suite' = [suite EXCEPT !.idx = @ + 1]
    /\ name' = [name EXCEPT ![suite.idx + 1] = benchmarks[suite.idx + 1]]
    /\ UNCHANGED <<config, benchmarks, run, cacheVars, optVars, auxVars>>

\* runner.py:200,207, all pairs submitted: the caller enters as_completed
Submitted ==
    /\ suite.pc = "submit"
    /\ suite.idx = NB
    /\ suite' = [suite EXCEPT !.pc = "collect"]
    /\ UNCHANGED <<config, benchmarks, name, run, cacheVars, optVars, auxVars>>

\* tasks a pool thread is executing
Busy == {k \in 1..NB : run[k].pc \notin {"idle", "done", "raised"}}

\* runner.py:196,203, ThreadPoolExecutor(max_workers): a pool thread takes the
\* oldest queued task while fewer than max_workers tasks are executing
WorkerStart(k) ==
    /\ config.parallel
    /\ k <= suite.idx
    /\ run[k].pc = "idle"
    /\ \A j \in 1..(k - 1) : run[j].pc # "idle"
    /\ Cardinality(Busy) < config.workers
    /\ Enter(k, suite_collector)
    /\ UNCHANGED <<config, benchmarks, name, suite, cacheVars, optVars, auxVars>>

\* variant of Collect: a failed future is skipped
CollectSkipFailedMutant(k) ==
    /\ suite.pc = "collect"
    /\ k \notin suite.collected
    /\ run[k].pc \in {"done", "raised"}
    /\ IF run[k].pc = "done"
       THEN suite' = [suite EXCEPT !.collected = @ \cup {k},
                                   !.order = Append(@, k),
                                   !.results = Append(@, run[k].result[1])]
       ELSE suite' = [suite EXCEPT !.collected = @ \cup {k},
                                   !.order = Append(@, k)]
    /\ UNCHANGED <<config, benchmarks, name, run, cacheVars, optVars, auxVars>>

\* runner.py:207-209, as_completed yields a finished future; future.result()
\* returns the task's result or raises the task's exception
Collect(k) ==
    /\ suite.pc = "collect"
    /\ k \notin suite.collected
    /\ run[k].pc \in {"done", "raised"}
    /\ IF run[k].pc = "done"
       THEN suite' = [suite EXCEPT !.collected = @ \cup {k},
                                   !.order = Append(@, k),
                                   !.results = Append(@, run[k].result[1])]
       ELSE suite' = [suite EXCEPT !.pc = "shutdown", !.error = run[k].error,
                                   !.failed = k]
    /\ UNCHANGED <<config, benchmarks, name, run, cacheVars, optVars, auxVars>>

\* variant of Shutdown: the executor is left without waiting for its tasks
ShutdownNoWaitMutant ==
    /\ suite.pc = "shutdown"
    /\ suite' = [suite EXCEPT !.pc = "raised"]
    /\ UNCHANGED <<config, benchmarks, name, run, cacheVars, optVars, auxVars>>

\* runner.py:196, leaving the with block on an exception: shutdown(wait=True)
\* returns once every submitted task has been executed, then the exception
\* leaves _run_parallel
Shutdown ==
    /\ suite.pc = "shutdown"
    /\ \A k \in 1..NB : run[k].pc \in {"done", "raised"}
    /\ suite' = [suite EXCEPT !.pc = "raised"]
    /\ UNCHANGED <<config, benchmarks, name, run, cacheVars, optVars, auxVars>>

\* runner.py:212-214, the sort key: index of the first pair with the result's name
SortKey(r) == CHOOSE i \in 1..NB :
                 /\ benchmarks[i] = r.name
                 /\ \A j \in 1..(i - 1) : benchmarks[j] # r.name

\* list.sort is stable: insert x after the elements whose key is <= its key
RECURSIVE Insert(_, _)
Insert(x, s) ==
    IF s = <<>> THEN <<x>>
    ELSE IF SortKey(Head(s)) <= SortKey(x)
         THEN <<Head(s)>> \o Insert(x, Tail(s))
         ELSE <<x>> \o s

RECURSIVE SortFrom(_, _)
SortFrom(s, n) ==
    IF n = 0 THEN <<>> ELSE Insert(s[n], SortFrom(s, n - 1))

\* variant of SortResults: the results stay in completion order
SortResultsNoSortMutant(s) == s

\* runner.py:212-214, results.sort(key=...)
SortResults(s) == SortFrom(s, Len(s))

\* runner.py:207,211-216, as_completed is exhausted: sort and return
ParReturn ==
    /\ suite.pc = "collect"
    /\ suite.collected = 1..NB
    /\ suite' = [suite EXCEPT !.pc = "returned", !.results = SortResults(@)]
    /\ UNCHANGED <<config, benchmarks, name, run, cacheVars, optVars, auxVars>>

\* ---- a call of run_suite --------------------------------------------------
MaxBench == 3           \* at most MaxBench pairs in a suite
MaxWorkers == 2         \* config["workers"] ranges over 1..MaxWorkers

\* The iteration logic of run is explored under SpecRun.  In a suite every
\* workload runs one warmup and one measured iteration with one retry allowed,
\* which lets each run return, raise, or time out, be retried and return.
SuiteConfigs ==
    {c \in Configs(1, 1, 1, BOOLEAN, 1..MaxWorkers) :
        c.iterations = 1 /\ c.warmup = 1 /\ c.max_retries = 1}

\* names are only ever compared for equality, so the lists of names are taken
\* up to renaming: the lists of pairwise distinct names and, for the duplicate
\* name case of the sort key, the lists whose last name repeats the first
NameSeq == <<"a", "b", "c", "d", "e">>
NameLists ==
    {[i \in 1..n |-> NameSeq[i]] : n \in 1..MaxBench}
    \cup {[i \in 1..n |-> IF i = n THEN NameSeq[1] ELSE NameSeq[i]] : n \in 2..MaxBench}

InitSuite ==
    /\ config \in SuiteConfigs
    /\ benchmarks \in NameLists
    /\ name = [r \in 0..NB |-> NoName]
    /\ run = [k \in 1..NB |-> NewRun]
    /\ suite = NoSuite
    /\ lat = None
    /\ pool = None
    /\ CacheUnused
    /\ OptUnused

NextSuite ==
    \/ RunSuite
    \/ SeqNext
    \/ SeqReturn
    \/ SeqRaise
    \/ SeqDone
    \/ Submit
    \/ Submitted
    \/ \E k \in 1..NB : WorkerStart(k)
    \/ \E k \in 1..NB : Collect(k)
    \/ Shutdown
    \/ ParReturn
    \/ \E k \in 1..NB : RunStep(k)

SpecSuite == InitSuite /\ [][NextSuite]_vars

\* ==== properties of BenchmarkRunner.run (checked under SpecRun) ============
Returned(k) == run[k].pc = "done"
Result(k) == run[k].result[1]

\* C1: a run with iterations=N and warmup=W whose workload never raised and
\* never exceeded the timeout has invoked the workload exactly N+W times, and
\* the result it returns has exactly N execution_times.
C1_InvocationCount ==
    \A k \in 1..NB :
        (Returned(k) /\ run[k].fails = 0) =>
            /\ run[k].calls = config.iterations + config.warmup
            /\ Len(Result(k).execution_times) = config.iterations

C1_Witness ==
    \E k \in 1..NB :
        /\ Returned(k) /\ run[k].fails = 0
        /\ config.iterations = MaxIterations /\ config.warmup = MaxWarmup
        /\ run[k].calls = MaxIterations + MaxWarmup

\* C2: with retry_on_error, whenever the failures of a run do not exceed
\* max_retries, the returned result has completed_iterations == iterations
\* (a failed attempt is retried without consuming its logical iteration).
C2_RetryKeepsIteration ==
    \A k \in 1..NB :
        (Returned(k) /\ config.retry_on_error /\ run[k].fails <= config.max_retries) =>
            Result(k).completed_iterations = config.iterations

C4_TimeoutAbandons ==
    [][\A k \in 1..NB :
         (run[k].pc = "is_alive" /\ run[k].thread = "running" /\ run'[k].pc # "is_alive") =>
            /\ run'[k].errors = run[k].errors + 1
            /\ run'[k].pc \in {"iterate", "raised"}
            /\ (run'[k].pc = "raised" => run'[k].error = TimeoutErr)
            /\ Active(k)' = Active(k)
            /\ run'[k].abandoned = run[k].abandoned + 1]_vars

\* run has raised TimeoutError while the workload it started is still running
C4_Witness ==
    \E k \in 1..NB :
        /\ run[k].pc = "raised" /\ run[k].error = TimeoutErr
        /\ run[k].abandoned > 0 /\ Active(k) > 0

\* ==== properties of BenchmarkRunner.run_suite (checked under SpecSuite) ====
DistinctNames == \A i, j \in 1..NB : benchmarks[i] = benchmarks[j] => i = j
SuiteReturned == suite.pc = "returned"
SuiteRaised == suite.pc = "raised"
Range(s) == {s[i] : i \in 1..Len(s)}

\* one result per workload, result i carrying the name of pair i
InInputOrder ==
    /\ Len(suite.results) = NB
    /\ \A i \in 1..NB : suite.results[i].name = benchmarks[i]

\* C5: parallel run_suite over pairwise distinct names returns one result per
\* workload with the names in input order, whatever order the futures
\* completed in and whatever the worker count.
C5_ParallelOrder ==
    (config.parallel /\ DistinctNames /\ SuiteReturned) => InInputOrder

\* three workloads on two workers, yielded by as_completed out of input order
C5_Witness ==
    /\ config.parallel /\ DistinctNames /\ SuiteReturned
    /\ NB = 3 /\ config.workers = 2
    /\ suite.order = <<2, 3, 1>>
    /\ InInputOrder

\* C6 as stated: sequential run_suite invokes the workloads strictly in input
\* order, every invocation of workload k having finished before the first
\* invocation of workload k+1, and returns result i with the name of pair i.
C6_SequentialNoOverlap ==
    ~config.parallel =>
        /\ \A k \in 1..(NB - 1) : run[k + 1].calls > 0 => Active(k) = 0
        /\ SuiteReturned => InInputOrder

\* C6 amended: sequential run_suite invokes the workloads strictly in input
\* order: before the first invocation of workload k+1 the run of workload k has
\* returned, and every invocation of workload k has finished or has timed out
\* and been abandoned; it returns result i with the name of pair i.
C6_SequentialOrder ==
    ~config.parallel =>
        /\ \A k \in 1..(NB - 1) :
              run[k + 1].pc # "idle" =>
                  /\ Returned(k)
                  /\ Active(k) = run[k].abandoned
                  /\ run[k].abandoned <= run[k].fails
        /\ SuiteReturned => InInputOrder

\* a sequential suite of three has returned in input order although the first
\* workload timed out and its abandoned invocation is still running
C6_Witness ==
    /\ ~config.parallel /\ SuiteReturned /\ NB = 3 /\ InInputOrder
    /\ \A k \in 1..NB : run[k].calls = config.iterations + config.warmup
    /\ config.iterations > 0 /\ config.warmup > 0
    /\ run[1].abandoned > 0

\* C7: in sequential mode the first workload whose run raises aborts the
\* suite: run_suite raises that error and no later workload is ever invoked.
C7_SequentialFailFast ==
    ~config.parallel =>
        \A k \in 1..NB :
            run[k].pc = "raised" =>
                /\ \A j \in (k + 1)..NB : run[j].pc = "idle" /\ run[j].calls = 0
                /\ suite.pc \in {"seq_run", "raised"}
                /\ suite.idx = k
                /\ SuiteRaised => suite.error = run[k].error

C7_Witness ==
    /\ ~config.parallel /\ SuiteRaised /\ NB = 3
    /\ run[1].pc = "done" /\ run[2].pc = "raised" /\ run[3].pc = "idle"
    /\ suite.error = run[2].error

\* C8: in parallel mode a failing workload does not abort the others: when
\* run_suite has raised, every submitted workload has been executed, and every
\* workload that did not fail itself has run all its warmup and measured
\* iterations.
C8_ParallelNoAbort ==
    (config.parallel /\ SuiteRaised) =>
        \A k \in 1..NB :
            /\ run[k].pc \in {"done", "raised"}
            /\ Returned(k) => /\ run[k].warm = config.warmup
                              /\ run[k].it = config.iterations
                              /\ run[k].calls = config.warmup + config.iterations

C8_Witness ==
    /\ config.parallel /\ SuiteRaised /\ NB = 3 /\ config.workers = 1
    /\ suite.failed = 1 /\ run[1].pc = "raised"
    /\ Returned(2) /\ Returned(3)
    /\ run[3].calls = 2

\* C9 as stated: run_suite either returns a complete result list in input
\* order, or raises a single error that identifies the failing workload by
\* name; it never returns a partial list.
C9_TwoOutcomes ==
    /\ SuiteReturned => InInputOrder
    /\ SuiteRaised => benchmarks[suite.failed] \in Range(suite.error.message)

\* C9 amended: run_suite either returns a complete list with one result per
\* input workload (in input order in sequential mode and, in parallel mode,
\* when the names are pairwise distinct; otherwise ordered by the first
\* position of each name), or raises the failing workload's own exception or
\* TimeoutError unchanged, which does not name the workload; it never returns
\* a partial list.
C9_TwoOutcomesUnnamedError ==
    /\ SuiteReturned =>
          /\ Len(suite.results) = NB
          /\ \A k \in 1..NB : Returned(k) /\ Result(k) \in Range(suite.results)
          /\ (~config.parallel \/ DistinctNames) => InInputOrder
          /\ config.parallel =>
                \A i \in 1..(NB - 1) :
                    SortKey(suite.results[i]) <= SortKey(suite.results[i + 1])
    /\ SuiteRaised =>
          /\ suite.failed \in 1..NB
          /\ run[suite.failed].pc = "raised"
          /\ suite.error = run[suite.failed].error
          /\ suite.error \in {TimeoutErr} \cup {WorkloadErr(p) : p \in Payloads}
          /\ benchmarks[suite.failed] \notin Range(suite.error.message)

\* a parallel suite with a repeated name has returned a complete list that is
\* not in input order
C9_Witness ==
    /\ config.parallel /\ SuiteReturned /\ NB = 3
    /\ benchmarks = <<"a", "b", "a">>
    /\ Len(suite.results) = 3
    /\ ~InInputOrder

InitCache ==
    /\ config = DefaultConfig
    /\ benchmarks = <<"a">>
    /\ name = [r \in 0..1 |-> NoName]
    /\ run = [k \in 1..1 |-> NewRun]
    /\ suite = NoSuite
    /\ lat = None
    /\ pool = None
    /\ lru \in {NewCache(m, ttl) : m \in 1..MaxSize, ttl \in 1..MaxTime}
    /\ now = 0
    /\ thr = [t \in Threads |-> IdleThread]
    /\ ret = None
    /\ OptUnused

NextCache ==
    /\ \/ \E t \in Threads : CallGet(t)
       \/ \E t \in Threads : CallPut(t)
       \/ \E t \in Threads : Get(t)
       \/ \E t \in Threads : PutEvict(t)
       \/ \E t \in Threads : PutInsert(t)
       \/ Tick
    /\ UNCHANGED hist

SpecCache == InitCache /\ [][NextCache]_vars

\* ==== properties of LRUCache (checked under SpecCache) =====================
\* C10: after any sequence of get and put calls from any number of threads, an
\* LRUCache with max_size >= 1 holds at most max_size entries.
C10_CacheBounded ==
    lru.max_size >= 1 => Cardinality(DOMAIN lru.cache) <= lru.max_size

\* a put of a new key into a full cache of two entries has evicted the least
\* recently used key k1 and is about to insert
C10_Witness ==
    \E t \in Threads :
        /\ lru.max_size = 2
        /\ thr[t].pc = "put_insert" /\ thr[t].oldest = "k1"
        /\ thr[t].key \notin DOMAIN lru.cache
        /\ Cardinality(DOMAIN lru.cache) = 1

\* ---- consecutive lookups of an LRUCache ------------------------------------
\* the calls of SpecCache, with the history of lookups kept beside them:
\* hist.key is the key of the latest completed get as long as no put was called
\* after it, and hist.again tells whether the get before it had the same key
NextLookups ==
    \/ \E t \in Threads : CallGet(t) /\ UNCHANGED hist
    \/ \E t \in Threads : CallPut(t) /\ hist' = NoHist
    \/ \E t \in Threads : Get(t) /\ hist' = [hist EXCEPT !.key = thr[t].key,
                                                         !.again = hist.key = thr[t].key]
    \/ \E t \in Threads : PutEvict(t) /\ UNCHANGED hist
    \/ \E t \in Threads : PutInsert(t) /\ UNCHANGED hist
    \/ Tick /\ UNCHANGED hist

SpecLookups == InitCache /\ [][NextLookups]_vars

\* thread t completes a get in this step
GetStep(t) == thr[t].pc = "get" /\ thr'[t].pc = "idle"

\* the number of entries the cache holds
Size(c) == Cardinality(DOMAIN c.cache)

\* the cache holds no entry for key that has outlived ttl_seconds
Fresh(c, key) ==
    key \in DOMAIN c.cache => now - c.cache[key][2] < c.ttl_seconds

\* C11 (as stated): a get leaves the number of entries alone, and a get(k) that
\* follows a get(k) with no put in between returns what the first returned.
C11_ConsecutiveGets ==
    [][\A t \in Threads :
          GetStep(t) =>
              /\ Size(lru') = Size(lru)
              /\ (hist.key = thr[t].key => ret' = ret)]_vars

\* C11 (amended): the same, for lookups of a key whose entry, if there is one,
\* has not outlived ttl_seconds when get is called.
C11_ConsecutiveFreshGets ==
    [][\A t \in Threads :
          GetStep(t) /\ Fresh(lru, thr[t].key) =>
              /\ Size(lru') = Size(lru)
              /\ (hist.key = thr[t].key => ret' = ret)]_vars

\* two gets of k1 in a row, with no put in between, have both returned v1
C11_Witness ==
    /\ hist.key = "k1" /\ hist.again
    /\ ret = "v1"
    /\ lru.hits = 2
    /\ Size(lru) = 1

\* ---- the persistent cache of OptimizedBenchmarkRunner -----------------------
InitPersist ==
    /\ config = DefaultConfig
    /\ benchmarks = <<"a">>
    /\ name = [r \in 0..1 |-> NoName]
    /\ run = [k \in 1..1 |-> NewRun]
    /\ suite = NoSuite
    /\ lat = None
    /\ pool = None
    /\ \E ttl \in 1..MaxTime :
          /\ opt = NoRunner(ttl)
          /\ lru = NewCache(10000, ttl)
    /\ disk \in Disks
    /\ now = 0
    /\ thr = [t \in Threads |-> IdleThread]
    /\ ret = None
    /\ hist = NoHist
    /\ smp = None
    /\ batch = None
    /\ col = None

\* a runner is constructed, its cache is used and persisted, the process ends
NextPersist ==
    \/ Construct
    \/ Mkdir
    \/ WarmCache
    \/ WarmPut
    \/ WarmDone
    \/ Persist
    \/ Exit
    \/ Tamper
    \/ LoopGet
    \/ LoopPut
    \/ Tick /\ UNCHANGED hist

SpecPersist == InitPersist /\ [][NextPersist]_vars

\* C12: after _persist_cache has written a cache of N entries and a runner
\* constructed afterwards has loaded the file with _warm_cache, a get of any of
\* the N keys is a hit and returns the value the key had, as long as no put was
\* called on the new cache and less than ttl_seconds have passed since loading
\* (hist.key is the key of the latest get, ret what it returned).
C12_PersistedEntriesHit ==
    (/\ opt.pc = "ready"
     /\ disk.by # 0 /\ opt.gen > disk.by
     /\ hist.puts = opt.puts0
     /\ hist.key \in DOMAIN disk.saved
     /\ now - opt.t0 < lru.ttl_seconds)
    => /\ ret # None
       /\ ret = disk.saved[hist.key]

\* the second runner has loaded the two entries the first one persisted, and
\* get has hit both keys
C12_Witness ==
    /\ opt.pc = "ready" /\ opt.gen = 2
    /\ disk.by = 1
    /\ DOMAIN disk.saved = {"k1", "k2"}
    /\ hist.puts = opt.puts0
    /\ lru.hits = 2 /\ lru.misses = 0
    /\ hist.key = "k2" /\ ~hist.again
    /\ ret = "v2"

\* C13: the construction of an OptimizedBenchmarkRunner never raises, and a
\* runner constructed while the cache file is missing or corrupted starts with
\* an empty cache.
C13_ConstructionNeverFails ==
    /\ opt.pc # "raised"
    /\ (opt.pc = "ready" /\ hist.puts = opt.puts0 /\ disk.file \in {Missing, Corrupt}
            => DOMAIN lru.cache = {})

\* ---- the cache key of run_benchmark_async ------------------------------------
\* two calls of run_benchmark_async with arguments of any kind
InitKey ==
    /\ config = DefaultConfig
    /\ benchmarks = <<"a">>
    /\ name = [r \in 0..1 |-> NoName]
    /\ run = [k \in 1..1 |-> NewRun]
    /\ suite = NoSuite
    /\ lat = None
    /\ pool = None
    /\ CacheUnused
    /\ hist = NoHist
    /\ disk = None
    /\ opt = None
    /\ smp \in [calls : AsyncCalls \X AsyncCalls, keys : {<<>>}]
    /\ batch = None
    /\ col = None

NextKey == GenerateCacheKey

SpecKey == InitKey /\ [][NextKey]_vars

\* the two calls have the same name, the same positional arguments and keyword
\* arguments that are equal as mappings
SameCall(a, b) ==
    /\ a.name = b.name
    /\ a.args = b.args
    /\ AsMapping(a.kwargs) = AsMapping(b.kwargs)

\* C14: two calls with the same benchmark name, the same positional arguments
\* and keyword arguments that are equal as mappings, inserted in any order,
\* get the same cache key.
C14_KeyIgnoresInsertionOrder ==
    Len(smp.keys) = 2 /\ SameCall(smp.calls[1], smp.calls[2])
        => smp.keys[1] = smp.keys[2]

\* both keys are computed, for two calls whose keyword arguments are the same
\* mapping inserted in opposite orders
C14_Witness ==
    /\ Len(smp.keys) = 2
    /\ SameCall(smp.calls[1], smp.calls[2])
    /\ Len(smp.calls[1].kwargs) = 2
    /\ smp.calls[1].kwargs # smp.calls[2].kwargs
    /\ smp.keys[1] = smp.keys[2]

\* ---- the sampling loop of run_benchmark_async -------------------------------
InitAsync ==
    /\ config = DefaultConfig
    /\ benchmarks = <<"a">>
    /\ name = [r \in 0..1 |-> NoName]
    /\ run = [k \in 1..1 |-> NewRun]
    /\ suite = NoSuite
    /\ lat = None
    /\ pool = None
    /\ lru \in {NewCache(10000, cache_ttl) : cache_ttl \in {1, 3600}}
    /\ now = 0
    /\ thr = [t \in Threads |-> IdleThread]
    /\ ret = None
    /\ hist = NoHist
    /\ disk = None
    /\ opt = None
    /\ smp \in {NoAsync(cfg) : cfg \in AsyncConfigs}
    /\ batch = None
    /\ col = None

NextAsync ==
    \/ AsyncCall
    \/ AsyncWarmup
    \/ AsyncMeasure
    \/ AsyncLoopEnd
    \/ AsyncStats
    \/ AsyncAgain
    \/ Tick /\ UNCHANGED hist

SpecAsync == InitAsync /\ [][NextAsync]_vars

\* all samples are the same duration
ZeroVariance(samples) == \A i, j \in DOMAIN samples : samples[i] = samples[j]

\* C15: with adaptive sampling and at least 5 configured iterations, a call
\* that runs a workload of constant duration returns a result of exactly 5
\* samples, whatever the warmup count, and does not raise.
C15_ZeroVarianceStopsAtMinimum ==
    (/\ smp.config.adaptive_sampling
     /\ smp.pc \in {"returned", "raised"}
     /\ smp.calls > 0
     /\ smp.config.iterations >= min_iterations
     /\ ZeroVariance(smp.samples))
    => /\ smp.pc = "returned"
       /\ smp.result.samples = min_iterations

\* ---- requests through the batched wrapper ------------------------------------
InitBatch ==
    /\ config = DefaultConfig
    /\ benchmarks = <<"a">>
    /\ name = [r \in 0..1 |-> NoName]
    /\ run = [k \in 1..1 |-> NewRun]
    /\ suite = NoSuite
    /\ lat = None
    /\ pool = None
    /\ CacheUnused
    /\ hist = NoHist
    /\ disk = None
    /\ opt = None
    /\ smp = None
    /\ batch \in {[NoBatch(b, n) EXCEPT !.has_batch = h] :
                     b \in 1..MaxBatchSize, n \in 1..MaxRequests, h \in BOOLEAN}
    /\ col = None

\* ProcessBatch(r) is never enabled: the call r that awaits it holds batch_lock
NextBatch == \E args \in Atoms : BatchedWrapper(args)

SpecBatch == InitBatch /\ [][NextBatch]_vars

\* C16: with batch_size 10 and 25 requests of one workload type, once nothing
\* more can happen there have been exactly 3 flushes, of 10, 10 and 5 requests,
\* and every request has been dispatched.
C16_ThreeFlushes ==
    (batch.batch_size = 10 /\ batch.requests = 25 /\ ~ENABLED NextBatch)
    => /\ batch.flushes = <<10, 10, 5>>
       /\ \A r \in 1..25 : r \in DOMAIN batch.future /\ batch.future[r] # "pending"

\* ---- continuous collection of a MetricCollector ------------------------------
InitCollector ==
    /\ config = DefaultConfig
    /\ benchmarks = <<"a">>
    /\ name = [r \in 0..1 |-> NoName]
    /\ run = [k \in 1..1 |-> NewRun]
    /\ suite = NoSuite
    /\ lat = None
    /\ pool = None
    /\ CacheUnused
    /\ hist = NoHist
    /\ disk = None
    /\ opt = None
    /\ smp = None
    /\ batch = None
    /\ col = NewCollector

NextCollector ==
    \/ StartContinuousCollection
    \/ StopContinuousCollection
    \/ JoinEnded
    \/ JoinTimedOut
    \/ \E t \in DOMAIN col.threads : LoopCheck(t)
    \/ \E t \in DOMAIN col.threads : LoopAppend(t)
    \/ \E t \in DOMAIN col.threads : LoopWake(t)

SpecCollector == InitCollector /\ [][NextCollector]_vars

\* the threads whose loop has found _continuous_stop false in the current
\* collection and has not ended
SamplingLoops ==
    {t \in DOMAIN col.threads :
        col.threads[t].pc # "dead" /\ col.threads[t].seen = col.starts}

\* C17: whatever start and stop calls are made, at most one sampling loop is
\* running at any time.
C17_OneSamplingLoop == Cardinality(SamplingLoops) <= 1

\* the mapping the workload of run k returned, empty if it returned no mapping
ReturnedMapping(k) ==
    IF Result(k).return_value.kind = "dict"
    THEN Result(k).return_value.value ELSE [x \in {} |-> 0]

\* C18: the metrics of a returned result are the workload's returned mapping
\* overlaid with the collector's collect_all() output (the collector wins on a
\* shared key), and the returned mapping is merged whether or not a collector
\* is attached.
C18_MetricsMergeReturnValue ==
    \A k \in 1..NB :
        Returned(k) =>
            Result(k).metrics =
                Update(ReturnedMapping(k), run[k].metric_collector.collect_all)

\* C19: without retry_on_error, once a measured invocation has failed with an
\* exception of the workload, run has raised that very exception, the failed
\* invocation is the last one made, and there is no result.
C19_FirstErrorPropagates ==
    \A k \in 1..NB :
        (/\ ~config.retry_on_error
         /\ run[k].fails >= 1
         /\ run[k].error # TimeoutErr)
        => /\ run[k].pc = "raised"
           /\ \E p \in Payloads : run[k].error = WorkloadErr(p)
           /\ run[k].fails = 1
           /\ run[k].it = run[k].completed_iterations + 1
           /\ run[k].calls = config.warmup + run[k].it
           /\ run[k].result = <<>>

\* the workload raised in the second of three measured iterations
C19_Witness ==
    /\ ~config.retry_on_error
    /\ ~config.timeout
    /\ config.iterations = 3
    /\ config.warmup = 1
    /\ run[1].pc = "raised"
    /\ run[1].error = WorkloadErr("boom")
    /\ run[1].completed_iterations = 1
    /\ run[1].calls = 3

\* C20: in every returned result the number of recorded execution times equals
\* completed_iterations.
C20_TimesMatchCompleted ==
    \A k \in 1..NB :
        Returned(k) =>
            Len(Result(k).execution_times) = Result(k).completed_iterations

\* a returned result with two recorded times after one retried failure
C20_Witness ==
    /\ Returned(1)
    /\ config.iterations = 3
    /\ Result(1).errors = 1
    /\ Result(1).completed_iterations = 2
    /\ Len(Result(1).execution_times) = 2


\* ---- registry and collection of a MetricCollector ---------------------------
\* a new collector; whether the collect() of its CPU source works is up to
\* the process table
InitMetrics ==
    /\ config = DefaultConfig
    /\ benchmarks = <<"a">>
    /\ name = [r \in 0..1 |-> NoName]
    /\ run = [k \in 1..1 |-> NewRun]
    /\ suite = NoSuite
    /\ lat = None
    /\ pool = None
    /\ CacheUnused
    /\ hist = NoHist
    /\ disk = None
    /\ opt = None
    /\ smp = None
    /\ batch = None
    /\ \E d \in Behaviours :
         col = [NewCollector EXCEPT !.available_metrics["cpu"].does = d]

NextMetrics ==
    \/ \E n \in {"custom", "cpu"}, src \in CustomSources : AddMetric(n, src)
    \/ \E n \in MetricNames : EnableMetric(n)
    \/ TimeOperation
    \/ \E n \in MetricNames, ignore_errors \in BOOLEAN : CollectMetric(n, ignore_errors)
    \/ CollectAll

SpecMetrics == InitMetrics /\ [][NextMetrics]_vars

C22_AddedMetricIsCollected ==
    (/\ col.out.op = "collect_all"
     /\ "custom" \in DOMAIN col.available_metrics
     /\ col.available_metrics["custom"].does = "data")
    => /\ "custom" \in DOMAIN col.out.all
       /\ col.out.all["custom"] = {col.available_metrics["custom"].id}


\* C23: with retry_on_error the retry budget belongs to the whole run: a run
\* never sees more than max_retries + 1 failing calls, the failure number
\* max_retries + 1 has made run raise without a result, and run has not
\* raised out of a measured iteration after fewer failures, however the
\* failures are spread over the iterations.
C23_SharedRetryBudget ==
    \A k \in 1..NB :
        config.retry_on_error =>
            /\ run[k].fails <= config.max_retries + 1
            /\ run[k].fails = config.max_retries + 1
                   => run[k].pc = "raised" /\ run[k].result = <<>>
            /\ (run[k].pc = "raised" /\ run[k].it > 0)
                   => run[k].fails = config.max_retries + 1

\* one retry allowed: the first and the third iteration failed, once each, the
\* second one completed, and the second failure aborted the run
C23_Witness ==
    /\ config.retry_on_error
    /\ config.max_retries = 1
    /\ config.iterations = 3
    /\ run[1].pc = "raised"
    /\ run[1].fails = 2
    /\ run[1].it = 3
    /\ run[1].execution_times = <<config.warmup + 2>>

\* C24: with a timeout set, when the workload has raised while the runner was
\* still waiting for it, the invocation fails with the workload's exception:
\* it is counted as an error, nothing is abandoned, and if run raises it
\* raises that exception, never TimeoutError.
C24_RaiseBeforeDeadline ==
    [][\A k \in 1..NB :
         (run[k].pc = "join" /\ run[k].thread = "raised" /\ run'[k].pc # "join") =>
            /\ run'[k].errors = run[k].errors + 1
            /\ run'[k].fails = run[k].fails + 1
            /\ run'[k].abandoned = run[k].abandoned
            /\ run'[k].pc \in {"iterate", "raised"}
            /\ run'[k].pc = "iterate" => Tolerated(run'[k].errors)
            /\ run'[k].pc = "raised" =>
                  /\ run'[k].error = run[k].exc
                  /\ run'[k].error # TimeoutErr]_vars

\* run with a timeout has raised the workload's own exception, no thread left
C24_Witness ==
    /\ config.timeout
    /\ run[1].pc = "raised"
    /\ run[1].fails >= 1
    /\ run[1].error = WorkloadErr("boom")
    /\ run[1].abandoned = 0


\* ---- single steps of LRUCache.get and LRUCache.put ---------------------------
\* the entries of c other than the one of key
Others(c, key) == Del(c.cache, key)

\* key is the last and only occurrence of itself in the deque
MostRecent(c, key) ==
    /\ Len(c.order) > 0
    /\ c.order[Len(c.order)] = key
    /\ \A j \in 1..(Len(c.order) - 1) : c.order[j] # key

\* C25: a get of an entry younger than ttl_seconds returns its value, counts a
\* hit and makes the key most recently used, keeping every entry; a get of an
\* entry of age ttl_seconds or more removes that entry only, counts a miss and
\* returns nothing; a get of an absent key counts a miss, returns nothing and
\* changes neither the entries nor their order.
C25_GetStep ==
    [][\A t \in Threads :
          GetStep(t) =>
             LET key == thr[t].key IN
             IF key \in DOMAIN lru.cache
             THEN IF now - lru.cache[key][2] < lru.ttl_seconds
                  THEN /\ ret' = lru.cache[key][1]
                       /\ lru'.hits = lru.hits + 1
                       /\ lru'.misses = lru.misses
                       /\ lru'.cache = lru.cache
                       /\ MostRecent(lru', key)
                       /\ Remove(lru'.order, key) = Remove(lru.order, key)
                  ELSE /\ ret' = None
                       /\ lru'.hits = lru.hits
                       /\ lru'.misses = lru.misses + 1
                       /\ key \notin DOMAIN lru'.cache
                       /\ lru'.cache = Others(lru, key)
                       /\ lru'.order = Remove(lru.order, key)
             ELSE /\ ret' = None
                  /\ lru'.hits = lru.hits
                  /\ lru'.misses = lru.misses + 1
                  /\ lru'.cache = lru.cache
                  /\ lru'.order = lru.order]_vars

\* after a hit, a later get found the only entry expired and removed it
C25_Witness ==
    /\ \A t \in Threads : thr[t].pc = "idle"
    /\ lru.hits = 1
    /\ lru.misses = 1
    /\ Size(lru) = 0
    /\ lru.order = <<>>
    /\ ret = None

\* thread t goes through the first half of put in this step
PutEvictStep(t) == thr[t].pc = "put" /\ thr'[t].pc = "put_insert"

\* thread t completes a put in this step
PutInsertStep(t) == thr[t].pc = "put_insert" /\ thr'[t].pc = "idle"

\* C26: a put of an absent key into a cache at capacity first evicts exactly
\* one entry, the one at the least recently used end of the order, and any
\* other put evicts nothing; the put then stores the value under the key with
\* the current time as its timestamp, leaves the other entries alone and makes
\* the key most recently used.
C26_PutStep ==
    [][\A t \in Threads :
          /\ PutEvictStep(t) =>
                IF thr[t].key \notin DOMAIN lru.cache /\ Size(lru) >= lru.max_size
                THEN /\ Head(lru.order) \in DOMAIN lru.cache
                     /\ lru'.cache = Others(lru, Head(lru.order))
                     /\ Size(lru') = Size(lru) - 1
                     /\ lru'.order = Tail(lru.order)
                ELSE /\ lru'.cache = lru.cache
                     /\ lru'.order = Remove(lru.order, thr[t].key)
          /\ PutInsertStep(t) =>
                /\ thr[t].key \in DOMAIN lru'.cache
                /\ lru'.cache[thr[t].key] = <<thr[t].value, now>>
                /\ Others(lru', thr[t].key) = Others(lru, thr[t].key)
                /\ MostRecent(lru', thr[t].key)
                /\ Remove(lru'.order, thr[t].key) = lru.order]_vars

\* a full cache of k1 and k2 after one hit: the put of k3 has evicted k2 from
\* the least recently used end and is about to insert
C26_Witness ==
    \E t \in Threads :
        /\ lru.max_size = 2
        /\ thr[t].pc = "put_insert"
        /\ thr[t].key = "k3"
        /\ thr[t].oldest = "k2"
        /\ lru.hits = 1
        /\ DOMAIN lru.cache = {"k1"}
        /\ lru.cache["k1"][2] = 0
        /\ now >= 1


\* C27: a call of run_benchmark_async whose key had a live cache entry returns
\* that entry's result, marked as a hit, without invoking the workload; a
\* call whose key had none invokes the workload, and the result it returns is
\* then the one stored under the key.
C27_CacheBeforeRun ==
    /\ smp.pc \in {"loop", "stats", "raised"} => ~smp.live
    /\ smp.calls > smp.before => ~smp.live
    /\ smp.pc = "returned" =>
          /\ smp.cache_key \in DOMAIN lru.cache
          /\ lru.cache[smp.cache_key][1] = smp.result
          /\ IF smp.live
             THEN smp.result.cache_hit /\ smp.calls = smp.before
             ELSE smp.calls > smp.before

\* the second call found the result of the first one and returned it, no
\* invocation added
C27_Witness ==
    /\ smp.pc = "returned"
    /\ smp.live
    /\ smp.result.cache_hit
    /\ smp.before = smp.config.warmup_iterations + smp.config.iterations
    /\ smp.calls = smp.before
    /\ ~smp.config.adaptive_sampling

\* no prefix of the samples that _is_stable would accept is stable
NeverStable(samples) ==
    \A n \in 3..Len(samples) : ~IsStable(SubSeq(samples, 1, n))

\* C28: with adaptive sampling and at least 5 configured iterations, a call
\* that ran a workload whose samples never became stable returns a result with
\* as many samples as iterations are configured.
C28_UnstableRunsToMaximum ==
    (/\ smp.config.adaptive_sampling
     /\ smp.pc \in {"returned", "raised"}
     /\ ~smp.live
     /\ smp.config.iterations >= min_iterations
     /\ NeverStable(smp.samples))
    => /\ smp.pc = "returned"
       /\ smp.result.samples = smp.config.iterations


\* the requests of the queue once it holds batch_size of them
FullQueue == Len(batch.queue) >= batch.batch_size

\* C29: a call that has filled the queue up to batch_size and flushes it is
\* not blocked on batch_lock, and once nothing more can happen no queue is
\* left full and no request of a filled batch is left with a pending handle.
C29_FlushCompletes ==
    /\ \A r \in DOMAIN batch.pc :
          batch.pc[r] = "process_batch" => ENABLED ProcessBatch(r)
    /\ ~ENABLED NextBatch =>
          /\ ~FullQueue
          /\ \A j \in DOMAIN batch.queue : batch.future[batch.queue[j][2]] = "pending"
          /\ \A q \in DOMAIN batch.future :
                (\A j \in DOMAIN batch.queue : batch.queue[j][2] # q)
                    => batch.future[q] # "pending"

\* C30: for a workload type with a batch entry point, once nothing more can
\* happen every filled batch was handed to the entry point in one call with
\* the arguments of all its requests, and the handles of a batch are either
\* all resolved or all rejected.
C30_BatchEntryPoint ==
    (batch.has_batch /\ batch.requests >= batch.batch_size /\ ~ENABLED NextBatch)
    => /\ Len(batch.batch_calls) = batch.requests \div batch.batch_size
       /\ \A c \in DOMAIN batch.batch_calls :
             /\ Len(batch.batch_calls[c]) = batch.batch_size
             /\ \A q1, q2 \in ((c - 1) * batch.batch_size + 1)..(c * batch.batch_size) :
                   /\ batch.future[q1] = batch.future[q2]
                   /\ batch.future[q1] \in {"result", "exception"}


\* ---- _process_batch awaited directly ------------------------------------------
MaxFlushRequests == 3   \* 1..MaxFlushRequests calls of the batched wrapper are made

\* a wrapper of a workload type without a batch entry point, whose func raises
\* on some arguments
InitFlush ==
    /\ config = DefaultConfig
    /\ benchmarks = <<"a">>
    /\ name = [r \in 0..1 |-> NoName]
    /\ run = [k \in 1..1 |-> NewRun]
    /\ suite = NoSuite
    /\ lat = None
    /\ pool = None
    /\ CacheUnused
    /\ hist = NoHist
    /\ disk = None
    /\ opt = None
    /\ smp = None
    /\ batch \in {[NoBatch(b, n) EXCEPT !.failing = f] :
                     b \in 2..(MaxFlushRequests + 1), n \in 1..MaxFlushRequests,
                     f \in SUBSET Atoms}
    /\ col = None

NextFlush ==
    \/ \E args \in Atoms : BatchedWrapper(args)
    \/ DirectProcessBatch

SpecFlush == InitFlush /\ [][NextFlush]_vars

\* C31: for a workload type without a batch entry point, a request whose
\* handle has been set has it rejected if and only if the request itself
\* failed; every other request of the batch has its own result.
C31_FailureIsolation ==
    ~batch.has_batch =>
        \A q \in DOMAIN batch.future :
            batch.future[q] # "pending" =>
                (batch.future[q] = "exception" <=> batch.sent[q] \in batch.failing)


\* C32: once stop_continuous_collection has returned the timeline of a
\* collection, that timeline keeps the length it had when it was returned.
C32_ReturnedTimelineIsFinal ==
    (col.starts > 0 /\ col.returned.collection = col.starts)
    => Len(col.continuous_data) = col.returned.length


\* ---- start_operation and end_operation ----------------------------------------
InitLatency ==
    /\ config = DefaultConfig
    /\ benchmarks = <<"a">>
    /\ name = [r \in 0..1 |-> NoName]
    /\ run = [k \in 1..1 |-> NewRun]
    /\ suite = NoSuite
    /\ CacheUnused
    /\ OptUnused
    /\ lat \in {NoTimings(object) : object \in {"MetricCollector", "LatencyMetric"}}
    /\ pool = None

NextLatency ==
    \/ \E n \in OpNames : CollectorStartOperation(n)
    \/ \E n \in OpNames : CollectorEndOperation(n)
    \/ \E n \in OpNames : MetricStartOperation(n)
    \/ \E n \in OpNames : MetricEndOperation(n)

SpecLatency == InitLatency /\ [][NextLatency]_vars

\* the largest element of a non-empty set of numbers
Max(S) == CHOOSE x \in S : \A y \in S : y <= x

\* this step is a call of end_operation(n)
EndOperationStep(n) ==
    lat'.calls = lat.calls + 1 /\ lat'.last = <<"end_operation", n>>

\* C33: end_operation(n) closes the open timing of n that was started last,
\* and only that one: it leaves the open timings and the counted latencies of
\* the other names alone, adds one latency for n, the time since that start,
\* and changes nothing at all when no timing of n is open.
C33_EndClosesLatestOpen ==
    [][\A n \in OpNames :
          EndOperationStep(n) =>
             /\ \A m \in OpNames \ {n} :
                   /\ OpenStarts(lat', m) = OpenStarts(lat, m)
                   /\ CountedLatencies(lat', m) = CountedLatencies(lat, m)
             /\ IF OpenStarts(lat, n) = {}
                THEN /\ OpenStarts(lat', n) = {}
                     /\ CountedLatencies(lat', n) = CountedLatencies(lat, n)
                ELSE LET latest == Max(OpenStarts(lat, n)) IN
                     /\ OpenStarts(lat', n) = OpenStarts(lat, n) \ {latest}
                     /\ Cardinality(CountedLatencies(lat', n))
                            = Cardinality(CountedLatencies(lat, n)) + 1
                     /\ \E x \in CountedLatencies(lat', n) :
                            x[2] = lat'.calls - latest]_vars


\* ---- the memory pool ----------------------------------------------------------
InitPool ==
    /\ config = DefaultConfig
    /\ benchmarks = <<"a">>
    /\ name = [r \in 0..1 |-> NoName]
    /\ run = [k \in 1..1 |-> NewRun]
    /\ suite = NoSuite
    /\ CacheUnused
    /\ OptUnused
    /\ lat = None
    /\ pool \in {NewPool(max_blocks) : max_blocks \in 1..(MaxBuffers - 1)}

NextPool ==
    \/ \E t \in 1..PoolThreads : Allocate(t)
    \/ \E t \in 1..PoolThreads : \E block \in 1..MaxBuffers : Deallocate(t, block)
    \/ \E t \in 1..PoolThreads : \E block \in 1..MaxBuffers : WriteBlock(t, block)

SpecPool == InitPool /\ [][NextPool]_vars

\* C34: the buffers of the pool that are in use or on the free list are never
\* more than max_blocks.
C34_PoolBounded ==
    Cardinality(pool.used_blocks \cup Elements(pool.free_blocks)) <= pool.max_blocks

\* C35: every buffer on the free list is all zero, and the buffer that allocate
\* returns is all zero when it comes from the free list: it holds nothing that
\* a thread wrote to it.
C35_FreeBlocksAreZero ==
    /\ \A block \in Elements(pool.free_blocks) : pool.content[block] = 0
    /\ pool.returned.content = 0


\* C36: the invocations of the workload within one run never overlap: at most
\* one invocation is executing at a time, a timed-out one that was left
\* running included.
C36_InvocationsNeverOverlap ==
    \A k \in DOMAIN run : Active(k) <= 1

\* C36 (amended): of the invocations of one run at most one has not timed out;
\* two are executing at once only under timeout with retry_on_error, and then
\* all but one of them are measured invocations that timed out earlier and
\* were left running.
C36_OverlapOnlyWithTimedOut ==
    \A k \in DOMAIN run :
        /\ Active(k) - run[k].abandoned <= 1
        /\ run[k].abandoned <= run[k].fails
        /\ Active(k) > 1 => config.timeout /\ config.retry_on_error

\* a retry is running while the invocation that timed out before it is too
C36_Witness ==
    /\ run[1].pc = "join"
    /\ run[1].thread = "running"
    /\ run[1].abandoned = 1
    /\ run[1].calls = 2
    /\ Active(1) = 2


\* C37: a result object that a call which ran the workload returned has
\* cache_hit False, and keeps it False when later calls with the same
\* fingerprint are served from the cache.
C37_MissResultStaysMiss ==
    \A j \in DOMAIN smp.miss_results : smp.miss_results[j].cache_hit = FALSE


\* C38: a get is a hit only while less than ttl_seconds have passed since the
\* value it returns was first put, whether by this runner or by an earlier
\* one whose cache was persisted and loaded again.
C38_NoHitAfterTtlSinceFirstPut ==
    [][lru'.hits = lru.hits + 1
          => now - opt.origin[hist'.key] < lru.ttl_seconds]_vars


\* runner.py:125, self.results of the caller's runner in sequential mode: run
\* appends its result when it returns, so the list holds the results of the
\* workloads whose run has returned, in the order of the suite
RECURSIVE RunnerResults(_)
RunnerResults(k) ==
    IF k = 0 THEN <<>>
    ELSE IF run[k].pc = "done" THEN Append(RunnerResults(k - 1), run[k].result[1])
         ELSE RunnerResults(k - 1)

\* C39: when a sequential run_suite has returned or raised, the runner's name
\* is the one it had before the call, and runner.results holds exactly one
\* result for every workload whose run returned.
C39_SequentialRestoresName ==
    (~config.parallel /\ (SuiteReturned \/ SuiteRaised)) =>
        /\ name[0] = NoName
        /\ Len(RunnerResults(NB)) = Cardinality({k \in 1..NB : Returned(k)})
        /\ \A k \in 1..NB :
              Returned(k) =>
                  Cardinality({j \in DOMAIN RunnerResults(NB) :
                                  RunnerResults(NB)[j] = Result(k)}) >= 1


\* C40: warmup is outside the retry and timeout policy. Until every warmup
\* invocation has returned, run has started no measured iteration, counted no
\* error and started no thread to wait on with the timeout; a warmup
\* invocation that raises ends run at once with the workload's own error,
\* whatever retry_on_error and timeout are: no invocation follows it.
C40_WarmupOutsidePolicy ==
    \A k \in DOMAIN run :
        run[k].warm < config.warmup =>
            /\ run[k].pc \in {"idle", "warmup", "warmup_call", "raised"}
            /\ run[k].it = 0 /\ run[k].execution_times = <<>>
            /\ run[k].errors = 0 /\ run[k].fails = 0
            /\ run[k].thread = "none" /\ run[k].abandoned = 0
            /\ run[k].pc \in {"warmup_call", "raised"} => run[k].calls = run[k].warm + 1
            /\ run[k].pc = "raised" => run[k].error \in {WorkloadErr(p) : p \in Payloads}

\* the second warmup invocation has raised under retry_on_error and a timeout,
\* and run has raised its error
C40_Witness ==
    /\ config.retry_on_error /\ config.timeout /\ config.warmup = 2
    /\ run[1].pc = "raised"
    /\ run[1].warm = 1 /\ run[1].calls = 2
    /\ run[1].errors = 0

====
